---- MODULE Spec2Model ----
(***************************************************************************)
(* HR Assistant API: the resume scoring pipeline (upload type detection,   *)
(* text extraction, LLM scoring, persistence) of app/main.py,              *)
(* app/services.py, app/utils.py and app/database.py, and the accounts,    *)
(* sessions, job postings and job applications of app/main.py and          *)
(* app/database.py.                                                        *)
(*                                                                         *)
(* Text is a sequence of one-character strings, so that strip, endswith    *)
(* and join are computed as Python computes them.  A raised exception is   *)
(* a result record with raised = TRUE.  The remote services (OCR, LLM),    *)
(* the disk and the database are the environment: each answer they give   *)
(* is drawn from a bounded set at the moment the code calls them.          *)
(***************************************************************************)
EXTENDS Integers, Sequences, FiniteSets, TLC

VARIABLES
    unit,          \* the last direct call of a service function: arguments, result, calls made
    applications,  \* the rows of the applications table, in insertion order
    uploads,       \* the file names written under uploads/
    next_uuid,     \* the next fresh value of uuid.uuid4() / secrets.token_urlsafe
    batch,         \* score_resumes_batch in progress: files, position, results so far
    last,          \* the last finished request: inputs, response, calls made
    log,           \* the requests served one after another, where a run records them
    users,             \* the rows of the users table
    tokens,            \* the rows of the tokens table: the open sessions
    job_postings,      \* the rows of the job_postings table
    job_applications,  \* the rows of the job_applications table
    next_id,           \* the next fresh id of each of these tables, and the number of
                       \* the next request that changes the database
    pending            \* the requests that are between two of their database statements

vars ==
    <<unit, applications, uploads, next_uuid, batch, last, log,
      users, tokens, job_postings, job_applications, next_id, pending>>

\* the accounts, sessions, job postings and job applications
portal_vars == <<users, tokens, job_postings, job_applications, next_id, pending>>

-----------------------------------------------------------------------------
(* Bounds of the model *)

MaxPages == 2      \* pages of an OCR response, paragraphs of a DOCX
MaxTextLen == 1    \* characters of one page's markdown / one paragraph

-----------------------------------------------------------------------------
(* Text *)

Chars == {"a", " ", "\n"}

RECURSIVE SeqsUpTo(_, _)
SeqsUpTo(S, n) ==
    IF n = 0 THEN {<<>>}
    ELSE LET shorter == SeqsUpTo(S, n - 1)
         IN  shorter \cup {Append(s, x) : s \in {t \in shorter : Len(t) = n - 1}, x \in S}

\* str.isspace for one character
IsSpace(c) == c \in {" ", "\t", "\n", "\r"}

RECURSIVE lstrip(_)
lstrip(s) == IF s # <<>> /\ IsSpace(Head(s)) THEN lstrip(Tail(s)) ELSE s

RECURSIVE rstrip(_)
rstrip(s) ==
    IF s # <<>> /\ IsSpace(s[Len(s)]) THEN rstrip(SubSeq(s, 1, Len(s) - 1)) ELSE s

\* A bug strip could bring in: the caller tests "if not resume_text" on the text as
\* extracted.
strip_nothing(s) == s

\* str.strip()
strip(s) == rstrip(lstrip(s))

\* str.endswith(suffix)
endswith(s, suffix) ==
    /\ Len(s) >= Len(suffix)
    /\ SubSeq(s, Len(s) - Len(suffix) + 1, Len(s)) = suffix

\* sep.join(parts)
RECURSIVE join(_, _)
join(sep, parts) ==
    IF parts = <<>> THEN <<>>
    ELSE IF Len(parts) = 1 THEN parts[1]
    ELSE parts[1] \o sep \o join(sep, Tail(parts))

-----------------------------------------------------------------------------
(* Results of a call: a returned value or a raised exception *)

Return(v) ==
    [raised |-> FALSE, exc |-> "", status_code |-> 0, detail |-> <<>>, value |-> v]

\* raise HTTPException(status_code=..., detail=...)
HTTPException(status_code, detail) ==
    [raised |-> TRUE, exc |-> "HTTPException", status_code |-> status_code,
     detail |-> detail, value |-> <<>>]

\* any other exception class; detail is its message
Raise(exc, detail) ==
    [raised |-> TRUE, exc |-> exc, status_code |-> 0, detail |-> detail, value |-> <<>>]

-----------------------------------------------------------------------------
(* Uploaded documents and the OCR service *)

Absent == <<"<absent>">>    \* a key that a response dict does not carry

Texts == SeqsUpTo(Chars, MaxTextLen)

\* The bytes of an upload, by what a parser finds in them.
Docx(paragraphs) == [fmt |-> "docx", paragraphs |-> paragraphs]
PdfBytes == [fmt |-> "pdf", paragraphs |-> <<>>]
JunkBytes == [fmt |-> "junk", paragraphs |-> <<>>]

DocxFiles == {Docx(ps) : ps \in SeqsUpTo(Texts, MaxPages)}
FileBytes == DocxFiles \cup {PdfBytes, JunkBytes}

\* One page of the OCR response; markdown = Absent is a page without the key.
Pages == [index : {0}, markdown : Texts \cup {Absent}]

OCRErrors == {"timed out", "401 Unauthorized"}

OCROk(pages) == [ok |-> TRUE, pages |-> pages, err |-> ""]
OCRFail(err) == [ok |-> FALSE, pages |-> <<>>, err |-> err]
NoAnswer == [ok |-> FALSE, pages |-> <<>>, err |-> "<not called>"]

OCRResponses ==
    {OCROk(ps) : ps \in SeqsUpTo(Pages, MaxPages)} \cup {OCRFail(e) : e \in OCRErrors}

\* base64.b64encode(pdf_bytes).decode('utf-8')
encode_pdf_from_bytes(pdf_bytes) == [b64 |-> pdf_bytes]

\* page.get('markdown', '')
page_get_markdown(page) == IF page.markdown = Absent THEN <<>> ELSE page.markdown

\* docx.Document(io.BytesIO(file_bytes)): the parsed paragraphs, or the parser's error
docx_Document(file_bytes) ==
    IF file_bytes.fmt = "docx"
    THEN [ok |-> TRUE, paragraphs |-> file_bytes.paragraphs, err |-> ""]
    ELSE IF file_bytes.fmt = "pdf"
    THEN [ok |-> FALSE, paragraphs |-> <<>>, err |-> "File is not a zip file"]
    ELSE [ok |-> FALSE, paragraphs |-> <<>>, err |-> "Package not found"]

\* A bug extract_text_from_docx could have: paragraphs joined with a space.
extract_text_from_docx_space(file_bytes) ==
    LET document == docx_Document(file_bytes)
    IN  IF ~document.ok
        THEN HTTPException(500, <<"Error processing DOCX file: ", document.err>>)
        ELSE Return(join(<<" ">>, document.paragraphs))

extract_text_from_docx(file_bytes) ==
    LET document == docx_Document(file_bytes)
    IN  IF ~document.ok
        THEN HTTPException(500, <<"Error processing DOCX file: ", document.err>>)
        ELSE Return(join(<<"\n">>, document.paragraphs))

\* ocr.process(model=..., document={"type": "document_url", "document_url": ...})
OCRCall(file_bytes) ==
    [svc |-> "ocr.process",
     arg |-> <<"data:application/pdf;base64,", encode_pdf_from_bytes(file_bytes)>>]

\* A bug the PDF branch could have: page['markdown'] instead of
\* page.get('markdown', ''), a KeyError on a page without the key.
ocr_extract_keyerror(file_bytes, ocr) ==
    [calls |-> <<OCRCall(file_bytes)>>,
     ret |-> IF ~ocr.ok
             THEN HTTPException(500, <<"OCR processing failed: ", ocr.err>>)
             ELSE IF \E i \in 1..Len(ocr.pages) : ocr.pages[i].markdown = Absent
             THEN HTTPException(500, <<"OCR processing failed: ", "'markdown'">>)
             ELSE Return(join(<<" ">>,
                              [i \in 1..Len(ocr.pages) |-> ocr.pages[i].markdown]))]

\* A bug the PDF branch could have: a failed OCR call is logged and "" returned.
ocr_extract_swallow(file_bytes, ocr) ==
    [calls |-> <<OCRCall(file_bytes)>>,
     ret |-> IF ~ocr.ok
             THEN Return(<<>>)
             ELSE Return(join(<<" ">>,
                              [i \in 1..Len(ocr.pages) |->
                                  page_get_markdown(ocr.pages[i])]))]

\* The PDF branch of extract_resume_text; ocr is the answer of the OCR service.
ocr_extract(file_bytes, ocr) ==
    [calls |-> <<OCRCall(file_bytes)>>,
     ret |-> IF ~ocr.ok
             THEN HTTPException(500, <<"OCR processing failed: ", ocr.err>>)
             ELSE Return(join(<<" ">>,
                              [i \in 1..Len(ocr.pages) |->
                                  page_get_markdown(ocr.pages[i])]))]

\* A bug extract_resume_text could have: every type but "pdf" is parsed as DOCX.
extract_resume_text_else_docx(file_bytes, file_type, ocr) ==
    IF file_type = "pdf" THEN ocr_extract(file_bytes, ocr)
    ELSE [ret |-> extract_text_from_docx(file_bytes),
          calls |-> <<[svc |-> "docx.Document", arg |-> file_bytes]>>]

\* The result of extract_resume_text and the calls it made; ocr is the answer the
\* OCR service gives if it is asked.
extract_resume_text(file_bytes, file_type, ocr) ==
    IF file_type = "pdf" THEN ocr_extract(file_bytes, ocr)
    ELSE IF file_type = "docx" THEN
        [ret |-> extract_text_from_docx(file_bytes),
         calls |-> <<[svc |-> "docx.Document", arg |-> file_bytes]>>]
    ELSE [ret |-> Return(<<>>), calls |-> <<>>]

-----------------------------------------------------------------------------
(* JSON: the text of an LLM response is a sequence of lexical tokens; n is the *)
(* value of a number token in tenths (87.5 is 875).                            *)

Tok(kind, lexeme, n) == [kind |-> kind, s |-> lexeme, n |-> n]

LBrace == Tok("punct", "{", 0)
RBrace == Tok("punct", "}", 0)
Colon == Tok("punct", ":", 0)
Comma == Tok("punct", ",", 0)
NullTok == Tok("lit", "null", 0)
NaNTok == Tok("lit", "NaN", 0)
StrTok(str) == Tok("str", str, 0)
WordTok(w) == Tok("word", w, 0)

NumToks == {Tok("num", "87.5", 875), Tok("num", "0", 0),
            Tok("num", "150", 1500), Tok("num", "-5", -50),
            Tok("num", "100.5", 1005)}

\* the number token with the value n
NumTokOf(n) == CHOOSE t \in NumToks : t.n = n

\* Python values
JNum(n) == <<"num", n>>
JStr(str) == <<"str", str>>
JNull == <<"null", 0>>
JNaN == <<"nan", 0>>            \* float('nan')
JObj(f) == <<"obj", f>>         \* a dict: a function from its keys to their values
EmptyDict == [k \in {} |-> JNull]

IsDict(v) == v[1] = "obj"

\* d[key] = value
DictSet(d, key, value) ==
    [k \in DOMAIN d \cup {key} |-> IF k = key THEN value ELSE d[k]]

\* d.get(key, default)
DictGet(d, key, default) == IF key \in DOMAIN d THEN d[key] ELSE default

ParseFail == [ok |-> FALSE, value |-> JNull, next |-> 0]
Parsed(v, next) == [ok |-> TRUE, value |-> v, next |-> next]

RECURSIVE parse_value(_, _)
RECURSIVE parse_pairs(_, _, _)

\* json.decoder.JSONObject after the key position: "key" : value, then , or }
parse_pairs(toks, i, acc) ==
    IF i + 2 > Len(toks) \/ toks[i].kind # "str" \/ toks[i + 1] # Colon
    THEN ParseFail
    ELSE LET v == parse_value(toks, i + 2)
         IN  IF ~v.ok \/ v.next > Len(toks) THEN ParseFail
             ELSE LET d == DictSet(acc, toks[i].s, v.value)
                  IN  IF toks[v.next] = RBrace THEN Parsed(JObj(d), v.next + 1)
                      ELSE IF toks[v.next] = Comma THEN parse_pairs(toks, v.next + 1, d)
                      ELSE ParseFail

\* json.scanner.scan_once: the value that starts at token i.  Python's decoder
\* takes the constant NaN (and Infinity) as a float.
parse_value(toks, i) ==
    IF i > Len(toks) THEN ParseFail
    ELSE LET t == toks[i]
         IN  IF t.kind = "num" THEN Parsed(JNum(t.n), i + 1)
             ELSE IF t.kind = "str" THEN Parsed(JStr(t.s), i + 1)
             ELSE IF t = NullTok THEN Parsed(JNull, i + 1)
             ELSE IF t = NaNTok THEN Parsed(JNaN, i + 1)
             ELSE IF t = LBrace THEN
                 IF i + 1 <= Len(toks) /\ toks[i + 1] = RBrace
                 THEN Parsed(JObj(EmptyDict), i + 2)
                 ELSE parse_pairs(toks, i + 1, EmptyDict)
             ELSE ParseFail

\* json.loads(text): the value, or JSONDecodeError (no value, or extra data after it)
json_loads(toks) ==
    LET v == parse_value(toks, 1)
    IN  IF v.ok /\ v.next = Len(toks) + 1 THEN v ELSE ParseFail

-----------------------------------------------------------------------------
(* The scoring model *)

LLMErrors == {"429 rate limit"}

LLMOk(content) == [ok |-> TRUE, content |-> content, err |-> ""]
LLMFail(err) == [ok |-> FALSE, content |-> <<>>, err |-> err]

\* A bug the prompt could have: the two texts in each other's place.
ScorePrompt_swapped(resume_text, job_description) ==
    <<"...Job Description:", resume_text, "Candidate's Resume:", job_description,
      "Output Format...">>

\* the f-string of get_llm_score, by the two values it embeds
ScorePrompt(resume_text, job_description) ==
    <<"...Job Description:", job_description, "Candidate's Resume:", resume_text,
      "Output Format...">>

LLMCall(prompt) == [svc |-> "llm.invoke", arg |-> prompt]

\* A bug get_llm_score could have: a failed model call is tried once more.
get_llm_score_retry(resume_text, job_description, llm) ==
    [calls |-> IF llm.ok
               THEN <<LLMCall(ScorePrompt(resume_text, job_description))>>
               ELSE <<LLMCall(ScorePrompt(resume_text, job_description)),
                      LLMCall(ScorePrompt(resume_text, job_description))>>,
     ret |-> IF ~llm.ok
             THEN HTTPException(500, <<"An error occurred with the LLM: ", llm.err>>)
             ELSE LET v == json_loads(llm.content)
                  IN  IF ~v.ok
                      THEN HTTPException(500, <<"LLM returned a non-JSON response.">>)
                      ELSE Return(v.value)]

\* A bug get_llm_score could have: the score is clamped into [0, 100].
get_llm_score_clamp(resume_text, job_description, llm) ==
    [calls |-> <<LLMCall(ScorePrompt(resume_text, job_description))>>,
     ret |-> IF ~llm.ok
             THEN HTTPException(500, <<"An error occurred with the LLM: ", llm.err>>)
             ELSE LET v == json_loads(llm.content)
                  IN  IF ~v.ok
                      THEN HTTPException(500, <<"LLM returned a non-JSON response.">>)
                      ELSE IF IsDict(v.value) /\ "score" \in DOMAIN v.value[2]
                              /\ v.value[2]["score"][1] = "num"
                      THEN LET n == v.value[2]["score"][2]
                               c == IF n < 0 THEN 0 ELSE IF n > 1000 THEN 1000 ELSE n
                           IN  Return(JObj(DictSet(v.value[2], "score", JNum(c))))
                      ELSE Return(v.value)]

\* A bug get_llm_score could have: one except clause for every failure, the parse
\* error reported with the wrapped message.
get_llm_score_onekind(resume_text, job_description, llm) ==
    [calls |-> <<LLMCall(ScorePrompt(resume_text, job_description))>>,
     ret |-> IF ~llm.ok
             THEN HTTPException(500, <<"An error occurred with the LLM: ", llm.err>>)
             ELSE LET v == json_loads(llm.content)
                  IN  IF ~v.ok
                      THEN HTTPException(500, <<"An error occurred with the LLM: ",
                                                "Expecting value">>)
                      ELSE Return(v.value)]

\* The result of get_llm_score and the call it made; llm is the model's answer.
get_llm_score(resume_text, job_description, llm) ==
    [calls |-> <<LLMCall(ScorePrompt(resume_text, job_description))>>,
     ret |-> IF ~llm.ok
             THEN HTTPException(500, <<"An error occurred with the LLM: ", llm.err>>)
             ELSE LET v == json_loads(llm.content)
                  IN  IF ~v.ok
                      THEN HTTPException(500, <<"LLM returned a non-JSON response.">>)
                      ELSE Return(v.value)]

-----------------------------------------------------------------------------
(* The job description generator *)

\* str.replace(old, new), old and new one character each
replace(s, old, new) == [i \in 1..Len(s) |-> IF s[i] = old THEN new ELSE s[i]]

\* A bug the generator could have: every item is stripped after the split.
RECURSIVE split_trimmed(_, _)
split_trimmed(s, sep) ==
    IF \A i \in 1..Len(s) : s[i] # sep THEN <<strip(s)>>
    ELSE LET k == CHOOSE i \in 1..Len(s) : s[i] = sep /\ \A j \in 1..(i - 1) : s[j] # sep
         IN  <<strip(SubSeq(s, 1, k - 1))>> \o split_trimmed(SubSeq(s, k + 1, Len(s)), sep)

\* str.split(sep), sep one character: the pieces between the separators, empty
\* pieces kept, [""] for the empty string
RECURSIVE split(_, _)
split(s, sep) ==
    IF \A i \in 1..Len(s) : s[i] # sep THEN <<s>>
    ELSE LET k == CHOOSE i \in 1..Len(s) : s[i] = sep /\ \A j \in 1..(i - 1) : s[j] # sep
         IN  <<SubSeq(s, 1, k - 1)>> \o split(SubSeq(s, k + 1, Len(s)), sep)

None == <<"<None>">>            \* Python's None where a text is expected

\* JobRoleInput
JobRoleInput(job_title, company_name, key_responsibilities, required_skills, experience_level, location, extra_details) ==
    [job_title |-> job_title, company_name |-> company_name,
     key_responsibilities |-> key_responsibilities, required_skills |-> required_skills,
     experience_level |-> experience_level, location |-> location,
     extra_details |-> extra_details]

\* "\n- ".join(text.replace(";", ",").split(","))
BulletList(text) == join(<<"\n", "-", " ">>, split(replace(text, ";", ","), ","))

\* the f-string of generate_jd_from_llm, by the values it embeds
JDPrompt(job_details) ==
    <<"...Job Title:", job_details.job_title,
      "Company Name:", job_details.company_name,
      "Location:", job_details.location,
      "Experience Level:", job_details.experience_level,
      "Key Responsibilities to include: - ", BulletList(job_details.key_responsibilities),
      "Required Skills and Qualifications: - ", BulletList(job_details.required_skills),
      "Additional Details from user:",
      IF job_details.extra_details \in {None, <<>>}
      THEN <<"N", "/", "A">> ELSE job_details.extra_details,
      "Please generate...">>

\* A bug generate_jd_from_llm could have: the completion is parsed as JSON like the
\* scoring answer, a free-text completion rejected.
generate_jd_from_llm_parsed(job_details, llm) ==
    [calls |-> <<LLMCall(JDPrompt(job_details))>>,
     ret |-> IF ~llm.ok
             THEN HTTPException(500,
                    <<"An error occurred while generating the job description with the LLM: ",
                      llm.err>>)
             ELSE IF ~json_loads(llm.content).ok
             THEN HTTPException(500, <<"LLM returned a non-JSON response.">>)
             ELSE Return(llm.content)]

\* The result of generate_jd_from_llm and the call it made; llm is the model's answer.
generate_jd_from_llm(job_details, llm) ==
    [calls |-> <<LLMCall(JDPrompt(job_details))>>,
     ret |-> IF ~llm.ok
             THEN HTTPException(500,
                    <<"An error occurred while generating the job description with the LLM: ",
                      llm.err>>)
             ELSE Return(llm.content)]

-----------------------------------------------------------------------------
(* Uploads, the disk and the applications table *)

\* UploadFile: filename and content
Upload(filename, file_bytes) == [filename |-> filename, file_bytes |-> file_bytes]

UnsupportedFormat ==
    HTTPException(400, <<"Unsupported file format. Please upload a .pdf or .docx file.">>)

\* A bug get_text_from_resume could have: the type is taken from the content sniffed,
\* any other file passing as a PDF.
get_text_from_resume_lenient(resume_file) ==
    IF endswith(resume_file.filename, <<".", "d", "o", "c", "x">>)
    THEN Return(<<resume_file.file_bytes, "docx">>)
    ELSE Return(<<resume_file.file_bytes, "pdf">>)

\* (file_bytes, file_type), or HTTPException 400
get_text_from_resume(resume_file) ==
    IF endswith(resume_file.filename, <<".", "p", "d", "f">>)
    THEN Return(<<resume_file.file_bytes, "pdf">>)
    ELSE IF endswith(resume_file.filename, <<".", "d", "o", "c", "x">>)
    THEN Return(<<resume_file.file_bytes, "docx">>)
    ELSE UnsupportedFormat

\* the index of the last "." of a file name that follows a character other than ".",
\* 0 if there is none
RECURSIVE ExtDot(_, _)
ExtDot(name, i) ==
    IF i <= 1 THEN 0
    ELSE IF name[i] = "." /\ \E j \in 1..(i - 1) : name[j] # "." THEN i
    ELSE ExtDot(name, i - 1)

\* os.path.splitext(filename): <<root, ext>>
splitext(name) ==
    LET d == ExtDot(name, Len(name))
    IN  IF d = 0 THEN <<name, <<>>>>
        ELSE <<SubSeq(name, 1, d - 1), SubSeq(name, d, Len(name))>>

\* f"{uuid.uuid4()}{file_ext}"
UniqueFilename(uuid, file_ext) == [uuid |-> uuid, ext |-> file_ext]

\* Values of SQL columns
SqlInt(n) == <<"int", n>>
SqlText(t) == <<"text", t>>
SqlNull == <<"null", 0>>

\* numeric to integer on assignment: tenths rounded to the nearest integer, halves
\* away from zero
RoundTenths(n) == IF n >= 0 THEN (n + 5) \div 10 ELSE 0 - ((5 - n) \div 10)

\* What the INSERT makes of a Python value bound to the INTEGER column score.
SqlScore(v) ==
    IF v[1] = "num" THEN [ok |-> TRUE, value |-> SqlInt(RoundTenths(v[2])), err |-> ""]
    ELSE IF v[1] = "null" THEN [ok |-> TRUE, value |-> SqlNull, err |-> ""]
    ELSE IF v[1] = "nan"
    THEN [ok |-> FALSE, value |-> SqlNull, err |-> "integer out of range"]
    ELSE IF v[1] = "str"
    THEN [ok |-> FALSE, value |-> SqlNull, err |-> "invalid input syntax for type integer"]
    ELSE [ok |-> FALSE, value |-> SqlNull, err |-> "can't adapt type 'dict'"]

\* What the INSERT makes of a Python value bound to the TEXT column match_details.
SqlDetails(v) ==
    IF v[1] = "str" THEN [ok |-> TRUE, value |-> SqlText(v[2]), err |-> ""]
    ELSE IF v[1] = "null" THEN [ok |-> TRUE, value |-> SqlNull, err |-> ""]
    ELSE IF v[1] = "num"
    THEN [ok |-> TRUE, value |-> SqlText(NumTokOf(v[2]).s), err |-> ""]
    ELSE IF v[1] = "nan" THEN [ok |-> TRUE, value |-> SqlText("NaN"), err |-> ""]
    ELSE [ok |-> FALSE, value |-> SqlNull, err |-> "can't adapt type 'dict'"]

\* The store a request works on.
Store(apps, files, uuid) == [applications |-> apps, uploads |-> files, next_uuid |-> uuid]

\* the row is in the table already, its id and resume_path aside
SameApplicationStored(apps, candidate_name, sc, md, job_role) ==
    \E k \in 1..Len(apps) :
        /\ apps[k].candidate_name = candidate_name
        /\ apps[k].job_role = job_role
        /\ apps[k].score = sc
        /\ apps[k].match_details = md

\* A bug create_application could have: an application equal to a stored one is
\* not inserted again.
create_application_dedup(candidate_name, score, match_details, job_role, candidate_email, resume_path, db_up, st) ==
    LET sc == SqlScore(score)
        md == SqlDetails(match_details)
        row == [id |-> st.next_uuid, candidate_name |-> candidate_name,
                candidate_email |-> candidate_email, job_role |-> job_role,
                score |-> sc.value, match_details |-> md.value,
                status |-> "pending", resume_path |-> resume_path]
        call == [svc |-> "db.insert", arg |-> resume_path]
    IN  IF ~db_up
        THEN [ret |-> Raise("OperationalError", <<"connection refused">>),
              calls |-> <<call>>, st |-> st]
        ELSE IF ~sc.ok
        THEN [ret |-> Raise("DataError", <<sc.err>>), calls |-> <<call>>, st |-> st]
        ELSE IF ~md.ok
        THEN [ret |-> Raise("ProgrammingError", <<md.err>>), calls |-> <<call>>, st |-> st]
        ELSE IF SameApplicationStored(st.applications, candidate_name, sc.value, md.value,
                                      job_role)
        THEN [ret |-> Return(<<>>), calls |-> <<call>>, st |-> st]
        ELSE [ret |-> Return(<<>>), calls |-> <<call>>,
              st |-> [st EXCEPT !.applications = Append(@, row),
                                !.next_uuid = @ + 1]]

\* A bug create_application could have: the table refuses a second application of
\* the same candidate for the same role.
create_application_unique(candidate_name, score, match_details, job_role, candidate_email, resume_path, db_up, st) ==
    LET sc == SqlScore(score)
        md == SqlDetails(match_details)
        row == [id |-> st.next_uuid, candidate_name |-> candidate_name,
                candidate_email |-> candidate_email, job_role |-> job_role,
                score |-> sc.value, match_details |-> md.value,
                status |-> "pending", resume_path |-> resume_path]
        call == [svc |-> "db.insert", arg |-> resume_path]
    IN  IF ~db_up
        THEN [ret |-> Raise("OperationalError", <<"connection refused">>),
              calls |-> <<call>>, st |-> st]
        ELSE IF ~sc.ok
        THEN [ret |-> Raise("DataError", <<sc.err>>), calls |-> <<call>>, st |-> st]
        ELSE IF ~md.ok
        THEN [ret |-> Raise("ProgrammingError", <<md.err>>), calls |-> <<call>>, st |-> st]
        ELSE IF \E k \in 1..Len(st.applications) :
                   /\ st.applications[k].candidate_name = candidate_name
                   /\ st.applications[k].job_role = job_role
        THEN [ret |-> Raise("IntegrityError", <<"duplicate key value">>),
              calls |-> <<call>>, st |-> st]
        ELSE [ret |-> Return(<<>>), calls |-> <<call>>,
              st |-> [st EXCEPT !.applications = Append(@, row),
                                !.next_uuid = @ + 1]]

\* database.create_application on the store st: the store after it and the raised
\* error, if any.  db_up is whether the database answers.
create_application(candidate_name, score, match_details, job_role, candidate_email, resume_path, db_up, st) ==
    LET sc == SqlScore(score)
        md == SqlDetails(match_details)
        row == [id |-> st.next_uuid, candidate_name |-> candidate_name,
                candidate_email |-> candidate_email, job_role |-> job_role,
                score |-> sc.value, match_details |-> md.value,
                status |-> "pending", resume_path |-> resume_path]
        call == [svc |-> "db.insert", arg |-> resume_path]
    IN  IF ~db_up
        THEN [ret |-> Raise("OperationalError", <<"connection refused">>),
              calls |-> <<call>>, st |-> st]
        ELSE IF ~sc.ok
        THEN [ret |-> Raise("DataError", <<sc.err>>), calls |-> <<call>>, st |-> st]
        ELSE IF ~md.ok
        THEN [ret |-> Raise("ProgrammingError", <<md.err>>), calls |-> <<call>>, st |-> st]
        ELSE [ret |-> Return(<<>>), calls |-> <<call>>,
              st |-> [st EXCEPT !.applications = Append(@, row),
                                !.next_uuid = @ + 1]]

\* with open(file_path, "wb") as f: f.write(file_bytes)
write_upload(unique_filename, file_bytes, disk_ok, st) ==
    LET call == [svc |-> "open.write", arg |-> unique_filename]
    IN  IF ~disk_ok
        THEN [ret |-> Raise("OSError", <<"No space left on device">>),
              calls |-> <<call>>, st |-> st]
        ELSE [ret |-> Return(<<>>), calls |-> <<call>>,
              st |-> [st EXCEPT !.uploads = @ \cup {unique_filename}]]

\* pydantic's validation of ScoreResponse(score=..., explanation=..., filename=...):
\* score a float, explanation a str.  Absent stands for a keyword not passed.
ScoreResponse(score, explanation, filename) ==
    IF score = Absent \/ score[1] \notin {"num", "nan"}
    THEN Raise("ValidationError", <<"score: Input should be a valid number">>)
    ELSE IF explanation = Absent \/ explanation[1] # "str"
    THEN Raise("ValidationError", <<"explanation: Input should be a valid string">>)
    ELSE Return([score |-> score, explanation |-> <<explanation[2]>>,
                 filename |-> filename])

\* str(e)
StrOfException(e) ==
    IF e.exc = "HTTPException" THEN <<ToString(e.status_code), ": ">> \o e.detail
    ELSE e.detail

-----------------------------------------------------------------------------
(* The request handlers *)

BatchLimit == 5    \* resume_files[:5]

\* the positions of the calls of one service in a sequence of calls
CallsOf(calls, svc) == {i \in 1..Len(calls) : calls[i].svc = svc}

\* What the environment answers during one request or one batch item.
Env(ocr, llm, disk_ok, db_up) == [ocr |-> ocr, llm |-> llm, disk_ok |-> disk_ok, db_up |-> db_up]

Outcome(response, calls, st) == [response |-> response, calls |-> calls, st |-> st]

\* A ScoreResponse the handler builds from its own literals (always valid).
ScoreEntry(score, explanation, filename) ==
    [score |-> JNum(score), explanation |-> explanation, filename |-> filename]

\* POST /score_resume/: the response (a ScoreResponse, or the exception that ends the
\* request), the calls made in order and the store afterwards.
score_resume(job_description, resume_file, candidate_name, env, st) ==
    LET t == get_text_from_resume(resume_file)
    IN  IF t.raised THEN Outcome(t, <<>>, st)
        ELSE
    LET file_bytes == t.value[1]
        x == extract_resume_text(file_bytes, t.value[2], env.ocr)
    IN  IF x.ret.raised THEN Outcome(x.ret, x.calls, st)
        ELSE IF strip(x.ret.value) = <<>>
        THEN Outcome(HTTPException(400, <<"Could not extract any text from the resume.">>),
                     x.calls, st)
        ELSE
    LET g == get_llm_score(x.ret.value, job_description, env.llm)
    IN  IF g.ret.raised THEN Outcome(g.ret, x.calls \o g.calls, st)
        ELSE
    LET score_data == g.ret.value
        file_ext == splitext(resume_file.filename)[2]
        unique_filename == UniqueFilename(st.next_uuid, file_ext)
        w == write_upload(unique_filename, file_bytes, env.disk_ok,
                          [st EXCEPT !.next_uuid = @ + 1])
        calls_w == x.calls \o g.calls \o w.calls
    IN  IF w.ret.raised THEN Outcome(w.ret, calls_w, w.st)
        ELSE IF ~IsDict(score_data)
        THEN Outcome(Raise("AttributeError", <<"object has no attribute 'get'">>),
                     calls_w, w.st)
        ELSE
    LET name == IF candidate_name \in {None, <<>>}
                THEN <<"Unknown Candidate">> ELSE candidate_name
        c == create_application(name,
                                DictGet(score_data[2], "score", JNum(0)),
                                DictGet(score_data[2], "explanation", JStr("")),
                                "Applicant", None, unique_filename, env.db_up, w.st)
    IN  IF c.ret.raised THEN Outcome(c.ret, calls_w \o c.calls, c.st)
        ELSE Outcome(ScoreResponse(DictGet(score_data[2], "score", Absent),
                                   DictGet(score_data[2], "explanation", Absent),
                                   None),
                     calls_w \o c.calls, c.st)

\* A bug the except clause could have: the exception's text is dropped.
BatchErrorEntry_notext(e, resume_file) ==
    ScoreEntry(0, <<"Error processing file">>, resume_file.filename)

\* The except clause of the batch loop: the entry appended for the exception e.
BatchErrorEntry(e, resume_file) ==
    ScoreEntry(0, <<"Error processing file: ">> \o StrOfException(e), resume_file.filename)

\* One pass of the loop of score_resumes_batch: the entry appended to results, the
\* calls made and the store afterwards.
batch_item(job_description, resume_file, env, st) ==
    LET t == get_text_from_resume(resume_file)
    IN  IF t.raised THEN Outcome(BatchErrorEntry(t, resume_file), <<>>, st)
        ELSE
    LET file_bytes == t.value[1]
        x == extract_resume_text(file_bytes, t.value[2], env.ocr)
    IN  IF x.ret.raised THEN Outcome(BatchErrorEntry(x.ret, resume_file), x.calls, st)
        ELSE IF strip(x.ret.value) = <<>>
        THEN Outcome(ScoreEntry(0, <<"Could not extract text from this file.">>,
                                resume_file.filename),
                     x.calls, st)
        ELSE
    LET g == get_llm_score(x.ret.value, job_description, env.llm)
    IN  IF g.ret.raised
        THEN Outcome(BatchErrorEntry(g.ret, resume_file), x.calls \o g.calls, st)
        ELSE
    LET score_data == g.ret.value
        file_ext == splitext(resume_file.filename)[2]
        unique_filename == UniqueFilename(st.next_uuid, file_ext)
        w == write_upload(unique_filename, file_bytes, env.disk_ok,
                          [st EXCEPT !.next_uuid = @ + 1])
        calls_w == x.calls \o g.calls \o w.calls
        no_get == Raise("AttributeError", <<"object has no attribute 'get'">>)
    IN  IF w.ret.raised THEN Outcome(BatchErrorEntry(w.ret, resume_file), calls_w, w.st)
        ELSE IF ~IsDict(score_data)
        THEN Outcome(BatchErrorEntry(no_get, resume_file), calls_w, w.st)
        ELSE
    LET candidate_name == splitext(resume_file.filename)[1]
        score == DictGet(score_data[2], "score", JNum(0))
        explanation == DictGet(score_data[2], "explanation", JStr(""))
        c == create_application(candidate_name, score, explanation,
                                "Applicant", None, unique_filename, env.db_up, w.st)
        r == ScoreResponse(score, explanation, resume_file.filename)
    IN  IF c.ret.raised
        THEN Outcome(BatchErrorEntry(c.ret, resume_file), calls_w \o c.calls, c.st)
        ELSE IF r.raised
        THEN Outcome(BatchErrorEntry(r, resume_file), calls_w \o c.calls, c.st)
        ELSE Outcome(r.value, calls_w \o c.calls, c.st)

\* POST /create_job_description/: the response (a JobDescriptionResponse, or the
\* exception that ends the request), the calls made and the store afterwards.
create_job_description(job_details, env, st) ==
    LET g == generate_jd_from_llm(job_details, env.llm)
    IN  IF g.ret.raised THEN Outcome(g.ret, g.calls, st)
        ELSE Outcome(Return([job_description |-> g.ret.value]), g.calls, st)

\* A bug the loop could have: no cap on the files processed.
FirstFiles_all(resume_files) == resume_files

\* resume_files[:5]
FirstFiles(resume_files) ==
    SubSeq(resume_files, 1, IF Len(resume_files) < BatchLimit
                            THEN Len(resume_files) ELSE BatchLimit)

-----------------------------------------------------------------------------
(* Direct calls of extract_resume_text *)

FileTypes == {"pdf", "docx", "txt", "PDF", ""}

NoUnit ==
    [fn |-> "", args |-> <<>>, env |-> NoAnswer, ret |-> Return(<<>>), calls |-> <<>>,
     nth |-> 0, first |-> Return(<<>>)]

NoJobDetails == JobRoleInput(<<>>, <<>>, <<>>, <<>>, <<>>, <<>>, None)

NoRequest ==
    [op |-> "", job_description |-> <<>>, files |-> <<>>, candidate_name |-> None,
     job_details |-> NoJobDetails,
     envs |-> <<>>, response |-> Return(<<>>), calls |-> <<>>,
     before |-> Store(<<>>, {}, 1)]

IdleBatch ==
    [active |-> FALSE, job_description |-> <<>>, files |-> <<>>, i |-> 1,
     results |-> <<>>, envs |-> <<>>, calls |-> <<>>, before |-> Store(<<>>, {}, 1)]

\* No id was drawn yet.
FirstIds ==
    [users |-> 1, tokens |-> 1, job_postings |-> 1, job_applications |-> 1, requests |-> 1]

InitMain ==
    /\ applications = <<>>
    /\ uploads = {}
    /\ next_uuid = 1
    /\ batch = IdleBatch
    /\ last = NoRequest
    /\ log = <<>>
    /\ users = {}
    /\ tokens = {}
    /\ job_postings = {}
    /\ job_applications = {}
    /\ next_id = FirstIds
    /\ pending = {}

InitExtract == unit = NoUnit /\ InitMain

\* One direct call: the arguments are drawn, the function is applied.  A PDF's bytes
\* are opaque to the code (the OCR service reads them), so the OCR answers are
\* drawn in full for the two non-DOCX contents only.
CallExtract ==
    /\ unit.fn = ""
    /\ \E file_bytes \in FileBytes, file_type \in FileTypes :
         \E ocr \in IF file_type = "pdf" /\ file_bytes \in {PdfBytes, JunkBytes}
                    THEN OCRResponses
                    ELSE IF file_type = "pdf" THEN {OCRFail("timed out"), OCROk(<<>>)}
                    ELSE {NoAnswer} :
           LET r == extract_resume_text(file_bytes, file_type, ocr)
           IN  unit' = [fn |-> "extract_resume_text",
                        args |-> <<file_bytes, file_type>>,
                        env |-> ocr, ret |-> r.ret, calls |-> r.calls,
                        nth |-> 1, first |-> r.ret]
    /\ UNCHANGED <<applications, uploads, next_uuid, batch, last, log>>
    /\ UNCHANGED portal_vars

\* The caller takes the result; the next call can be made.
UnitDone ==
    /\ unit.fn # ""
    /\ unit' = NoUnit
    /\ UNCHANGED <<applications, uploads, next_uuid, batch, last, log>>
    /\ UNCHANGED portal_vars

NextExtract == CallExtract \/ UnitDone

SpecExtract == InitExtract /\ [][NextExtract]_vars

-----------------------------------------------------------------------------
(* Direct calls of get_llm_score with a mocked model *)

MaxToks == 3       \* tokens of an arbitrary (mostly malformed) model response

Strs == {"score", "explanation", "Strong match"}
Keys == {"score", "explanation"}

Scalars == {JNum(t.n) : t \in NumToks} \cup {JStr(str) : str \in Strs} \cup {JNull}

DictsOver(values) == UNION {[K -> values] : K \in SUBSET Keys}

\* The JSON values the mocked model answers with: scalars, and objects whose
\* members are scalars or an object.
JValues ==
    Scalars \cup {JObj(d) : d \in DictsOver(Scalars \cup {JObj(EmptyDict)})}

RECURSIVE ToJSON(_)
RECURSIVE MembersToJSON(_, _)

\* the members of dict d with the keys ks: "k" : value , "k" : value ...
MembersToJSON(d, ks) ==
    IF ks = {} THEN <<>>
    ELSE LET k == CHOOSE x \in ks : TRUE
             rest == ks \ {k}
         IN  <<StrTok(k), Colon>> \o ToJSON(d[k])
                 \o (IF rest = {} THEN <<>> ELSE <<Comma>> \o MembersToJSON(d, rest))

\* A JSON text of the value v (RFC 8259): what a model that answers v writes.
ToJSON(v) ==
    IF v[1] = "num" THEN <<NumTokOf(v[2])>>
    ELSE IF v[1] = "str" THEN <<StrTok(v[2])>>
    ELSE IF v[1] = "null" THEN <<NullTok>>
    ELSE <<LBrace>> \o MembersToJSON(v[2], DOMAIN v[2]) \o <<RBrace>>

JSONTextOf == [v \in JValues |-> ToJSON(v)]

AlphaToks ==
    {LBrace, RBrace, Colon, Comma, StrTok("score"), Tok("num", "87.5", 875),
     NaNTok, WordTok("I")}

\* Responses seen from real models that no enumeration of short texts reaches.
CuratedTexts ==
    { <<WordTok("I"), WordTok("cannot"), WordTok("comply")>>,
      <<WordTok("Sure:"), LBrace, StrTok("score"), Colon, Tok("num", "87.5", 875),
        RBrace>>,
      <<LBrace, StrTok("score"), Colon, Tok("num", "0", 0), Comma,
        StrTok("score"), Colon, Tok("num", "150", 1500), RBrace>>,
      <<LBrace, StrTok("score"), Colon, NaNTok, Comma,
        StrTok("explanation"), Colon, StrTok("Strong match"), RBrace>>,
      <<LBrace, StrTok("score"), Colon, Tok("num", "87.5", 875), Comma, RBrace>> }

MockTexts ==
    {JSONTextOf[v] : v \in JValues} \cup SeqsUpTo(AlphaToks, MaxToks) \cup CuratedTexts

MockResponses == {LLMOk(c) : c \in MockTexts} \cup {LLMFail(e) : e \in LLMErrors}

JobDescriptions == {<<"a">>, <<"a", " ", "a">>}
ResumeTexts == {<<"a">>, <<"a", "\n">>}

InitScore == unit = NoUnit /\ InitMain

\* The first call with a mocked response.
CallScore ==
    /\ unit.fn = ""
    /\ \E llm \in MockResponses :
         LET resume_text == <<"a">>
             job_description == <<"a">>
             r == get_llm_score(resume_text, job_description, llm)
         IN  unit' = [fn |-> "get_llm_score",
                      args |-> <<resume_text, job_description>>,
                      env |-> llm, ret |-> r.ret, calls |-> r.calls,
                      nth |-> 1, first |-> r.ret]
    /\ UNCHANGED <<applications, uploads, next_uuid, batch, last, log>>
    /\ UNCHANGED portal_vars

\* A further call while the mock stays fixed, with any resume and job description.
CallScoreAgain ==
    /\ unit.fn = "get_llm_score"
    /\ unit.nth = 1
    /\ \E resume_text \in ResumeTexts, job_description \in JobDescriptions :
         LET r == get_llm_score(resume_text, job_description, unit.env)
         IN  unit' = [unit EXCEPT !.args = <<resume_text, job_description>>,
                                  !.ret = r.ret, !.calls = r.calls, !.nth = 2]
    /\ UNCHANGED <<applications, uploads, next_uuid, batch, last, log>>
    /\ UNCHANGED portal_vars

NextScore == CallScore \/ CallScoreAgain \/ UnitDone

SpecScore == InitScore /\ [][NextScore]_vars

-----------------------------------------------------------------------------
(* The scoring service: requests arrive one at a time (the handlers are          *)
(* coroutines that never await, so each runs to its end on the event loop).      *)

MaxIds == 1        \* requests are accepted while at most this many ids were drawn
MaxShort == 2      \* files of a batch drawn freely
MaxFiles == 6      \* files of the longest batch

PdfName == <<"a", ".", "p", "d", "f">>
DocxName == <<"b", ".", "d", "o", "c", "x">>
TxtName == <<"c", ".", "t", "x", "t">>
UpperName == <<"d", ".", "P", "D", "F">>
BlankName == <<"e", ".", "d", "o", "c", "x">>
BadDocxName == <<"f", ".", "d", "o", "c", "x">>

MainUploads ==
    { Upload(PdfName, PdfBytes),
      Upload(DocxName, Docx(<<<<"a">>, <<"a">>>>)),
      Upload(TxtName, JunkBytes),
      Upload(UpperName, PdfBytes),
      Upload(BlankName, Docx(<<<<" ">>, <<>>>>)),
      Upload(BadDocxName, PdfBytes) }

BatchUploads ==
    {Upload(PdfName, PdfBytes), Upload(BadDocxName, PdfBytes), Upload(TxtName, JunkBytes)}

Page(markdown) == [index |-> 0, markdown |-> markdown]

MainOCR ==
    { OCRFail("timed out"), OCROk(<<>>), OCROk(<<Page(<<" ">>), Page(Absent)>>),
      OCROk(<<Page(<<"a">>)>>) }

BatchOCR == {OCRFail("timed out"), OCROk(<<>>), OCROk(<<Page(<<"a">>)>>)}

FullAnswer == JObj([score |-> JNum(875), explanation |-> JStr("Strong match")])

BatchLLM ==
    { LLMFail("429 rate limit"),
      LLMOk(<<WordTok("I"), WordTok("cannot"), WordTok("comply")>>),
      LLMOk(ToJSON(FullAnswer)),
      LLMOk(ToJSON(JObj([score |-> JNum(875), explanation |-> JNull]))) }

MainLLM ==
    BatchLLM \cup
    { LLMOk(ToJSON(JObj([score |-> JNum(1500), explanation |-> JStr("Strong match")]))),
      LLMOk(ToJSON(JObj([score |-> JNum(1005), explanation |-> JStr("Strong match")]))),
      LLMOk(ToJSON(JObj([score |-> JNum(-50), explanation |-> JStr("Strong match")]))),
      LLMOk(ToJSON(JObj([score |-> JNum(875)]))),
      LLMOk(ToJSON(JObj(EmptyDict))),
      LLMOk(ToJSON(JNum(875))),
      LLMOk(<<LBrace, StrTok("score"), Colon, NaNTok, Comma,
              StrTok("explanation"), Colon, StrTok("Strong match"), RBrace>>) }

CandidateNames == {None, <<"A", "n", "n">>}

\* upload number i of the longer batches: a PDF at the odd places, a broken DOCX
\* and an unsupported file in turn at the even ones
FileAt(i) ==
    IF i % 2 = 1 THEN Upload(PdfName, PdfBytes)
    ELSE IF i % 4 = 2 THEN Upload(BadDocxName, PdfBytes)
    ELSE Upload(TxtName, JunkBytes)

Batches ==
    SeqsUpTo(BatchUploads, MaxShort)
        \cup {[i \in 1..n |-> FileAt(i)] : n \in (MaxShort + 1)..MaxFiles}

\* The answers the code asked for: a service that was not called gave none.
UsedEnv(env, calls) ==
    Env(IF CallsOf(calls, "ocr.process") # {} THEN env.ocr ELSE NoAnswer,
        IF CallsOf(calls, "llm.invoke") # {} THEN env.llm ELSE LLMFail("<not called>"),
        IF CallsOf(calls, "open.write") # {} THEN env.disk_ok ELSE TRUE,
        IF CallsOf(calls, "db.insert") # {} THEN env.db_up ELSE TRUE)

CurrentStore == Store(applications, uploads, next_uuid)

SetStore(st) ==
    /\ applications' = st.applications
    /\ uploads' = st.uploads
    /\ next_uuid' = st.next_uuid

Init == unit = NoUnit /\ InitMain

\* POST /score_resume/
ScoreResume ==
    /\ ~batch.active
    /\ last.op = ""
    /\ next_uuid <= MaxIds
    /\ \E resume_file \in MainUploads, candidate_name \in CandidateNames,
          ocr \in MainOCR, llm \in MainLLM, disk_ok \in BOOLEAN, db_up \in BOOLEAN :
         LET job_description == <<"a">>
             env == Env(ocr, llm, disk_ok, db_up)
             o == score_resume(job_description, resume_file, candidate_name, env,
                               CurrentStore)
         IN  /\ SetStore(o.st)
             /\ last' = [op |-> "score_resume", job_description |-> job_description,
                         files |-> <<resume_file>>, candidate_name |-> candidate_name,
                         job_details |-> NoJobDetails,
                         envs |-> <<UsedEnv(env, o.calls)>>, response |-> o.response,
                         calls |-> <<o.calls>>, before |-> CurrentStore]
    /\ UNCHANGED <<unit, batch, log>>
    /\ UNCHANGED portal_vars

\* POST /score_resumes_batch/ arrives: results = []
BatchStart ==
    /\ ~batch.active
    /\ last.op = ""
    /\ next_uuid <= MaxIds
    /\ \E resume_files \in Batches :
         batch' = [active |-> TRUE, job_description |-> <<"a">>, files |-> resume_files,
                   i |-> 1, results |-> <<>>, envs |-> <<>>, calls |-> <<>>,
                   before |-> CurrentStore]
    /\ UNCHANGED <<unit, applications, uploads, next_uuid, last, log>>
    /\ UNCHANGED portal_vars

\* one pass of the loop
BatchItem ==
    /\ batch.active
    /\ batch.i <= Len(FirstFiles(batch.files))
    /\ \E ocr \in BatchOCR, llm \in BatchLLM, disk_ok \in BOOLEAN, db_up \in BOOLEAN :
         LET env == Env(ocr, llm, disk_ok, db_up)
             o == batch_item(batch.job_description, FirstFiles(batch.files)[batch.i],
                             env, CurrentStore)
         IN  /\ SetStore(o.st)
             /\ batch' = [batch EXCEPT !.i = @ + 1,
                                       !.results = Append(@, o.response),
                                       !.envs = Append(@, UsedEnv(env, o.calls)),
                                       !.calls = Append(@, o.calls)]
    /\ UNCHANGED <<unit, last, log>>
    /\ UNCHANGED portal_vars

\* return BatchScoreResponse(results=results)
BatchReturn ==
    /\ batch.active
    /\ batch.i > Len(FirstFiles(batch.files))
    /\ last' = [op |-> "score_resumes_batch", job_description |-> batch.job_description,
                files |-> batch.files, candidate_name |-> None,
                job_details |-> NoJobDetails, envs |-> batch.envs,
                response |-> Return(batch.results), calls |-> batch.calls,
                before |-> batch.before]
    /\ batch' = IdleBatch
    /\ UNCHANGED <<unit, applications, uploads, next_uuid, log>>
    /\ UNCHANGED portal_vars

ExampleResponsibilities ==
    <<"W", "r", "i", "t", "e", " ", "c", "o", "d", "e", ",", " ", "R", "e", "v", "i",
      "e", "w", " ", "P", "R", "s", ";", " ", "M", "e", "n", "t", "o", "r", " ", "j",
      "u", "n", "i", "o", "r", "s">>

MainJobDetails ==
    { JobRoleInput(<<"a">>, <<"a">>, kr, <<"a", ",", "a">>, <<"a">>, <<"a">>, extra) :
        kr \in {ExampleResponsibilities, <<>>}, extra \in {None, <<"a">>} }

JDCompletions ==
    { <<>>, <<WordTok("About"), WordTok("Us")>>, ToJSON(FullAnswer),
      <<LBrace, StrTok("score")>> }

JDResponses == {LLMOk(c) : c \in JDCompletions} \cup {LLMFail(e) : e \in LLMErrors}

\* POST /create_job_description/
CreateJobDescription ==
    /\ ~batch.active
    /\ last.op = ""
    /\ \E job_details \in MainJobDetails, llm \in JDResponses :
         LET env == Env(NoAnswer, llm, TRUE, TRUE)
             o == create_job_description(job_details, env, CurrentStore)
         IN  /\ SetStore(o.st)
             /\ last' = [op |-> "create_job_description", job_description |-> <<>>,
                         files |-> <<>>, candidate_name |-> None,
                         job_details |-> job_details,
                         envs |-> <<UsedEnv(env, o.calls)>>, response |-> o.response,
                         calls |-> <<o.calls>>, before |-> CurrentStore]
    /\ UNCHANGED <<unit, batch, log>>
    /\ UNCHANGED portal_vars

\* The response reaches the client; the server takes the next request.
ResponseSent ==
    /\ last.op # ""
    /\ last' = NoRequest
    /\ UNCHANGED <<unit, applications, uploads, next_uuid, batch, log>>
    /\ UNCHANGED portal_vars

Next ==
    \/ ScoreResume
    \/ BatchStart
    \/ BatchItem
    \/ BatchReturn
    \/ CreateJobDescription
    \/ ResponseSent

Spec == Init /\ [][Next]_vars

-----------------------------------------------------------------------------
(* Requests served one after another on the same server, each recorded with the  *)
(* store before and after it.                                                    *)

MaxRepeats == 3    \* requests of one run

\* the loop of score_resumes_batch over the files left, envs[i] answering file i
RECURSIVE batch_loop(_, _, _, _, _, _)
batch_loop(job_description, files, envs, results, calls, st) ==
    IF files = <<>> THEN Outcome(Return(results), calls, st)
    ELSE LET o == batch_item(job_description, Head(files), Head(envs), st)
         IN  batch_loop(job_description, Tail(files), Tail(envs),
                        Append(results, o.response), Append(calls, o.calls), o.st)

\* POST /score_resumes_batch/ as a whole; here calls holds one sequence per file
score_resumes_batch(job_description, resume_files, envs, st) ==
    batch_loop(job_description, FirstFiles(resume_files), envs, <<>>, <<>>, st)

RepeatUploads ==
    {Upload(PdfName, PdfBytes), Upload(DocxName, Docx(<<<<"a">>, <<"a">>>>))}

RepeatOCR == {OCRFail("timed out"), OCROk(<<Page(<<"a">>)>>)}

RepeatLLM == {LLMFail("429 rate limit"), LLMOk(ToJSON(FullAnswer))}

RepeatJobDetails ==
    JobRoleInput(<<"a">>, <<"a">>, <<"a", ";", "a">>, <<"a">>, <<"a">>, <<"a">>, None)

Served(op, job_description, files, candidate_name, job_details, envs, o, before) ==
    [op |-> op, job_description |-> job_description, files |-> files,
     candidate_name |-> candidate_name, job_details |-> job_details,
     envs |-> envs, response |-> o.response, calls |-> o.calls,
     before |-> before, after |-> o.st]

InitRepeat == unit = NoUnit /\ InitMain

\* POST /score_resume/
RepeatScoreResume ==
    /\ Len(log) < MaxRepeats
    /\ \E resume_file \in RepeatUploads, ocr \in RepeatOCR, llm \in RepeatLLM,
          db_up \in BOOLEAN :
         \E env \in {Env(ocr, llm, TRUE, db_up)} :
         \E o \in {score_resume(<<"a">>, resume_file, None, env, CurrentStore)} :
             /\ SetStore(o.st)
             /\ log' = Append(log, Served("score_resume", <<"a">>, <<resume_file>>, None,
                                          NoJobDetails, <<UsedEnv(env, o.calls)>>,
                                          [o EXCEPT !.calls = <<o.calls>>], CurrentStore))
    /\ UNCHANGED <<unit, batch, last>>
    /\ UNCHANGED portal_vars

\* POST /score_resumes_batch/ with one file
RepeatBatch ==
    /\ Len(log) < MaxRepeats
    /\ \E resume_file \in RepeatUploads, ocr \in RepeatOCR, llm \in RepeatLLM,
          db_up \in BOOLEAN :
         \E env \in {Env(ocr, llm, TRUE, db_up)} :
         \E o \in {score_resumes_batch(<<"a">>, <<resume_file>>, <<env>>, CurrentStore)} :
             /\ SetStore(o.st)
             /\ log' = Append(log, Served("score_resumes_batch", <<"a">>, <<resume_file>>,
                                          None, NoJobDetails,
                                          <<UsedEnv(env, o.calls[1])>>, o, CurrentStore))
    /\ UNCHANGED <<unit, batch, last>>
    /\ UNCHANGED portal_vars

\* POST /create_job_description/
RepeatCreateJobDescription ==
    /\ Len(log) < MaxRepeats
    /\ \E llm \in {LLMFail("429 rate limit"), LLMOk(<<WordTok("About"), WordTok("Us")>>)} :
         \E env \in {Env(NoAnswer, llm, TRUE, TRUE)} :
         \E o \in {create_job_description(RepeatJobDetails, env, CurrentStore)} :
             /\ SetStore(o.st)
             /\ log' = Append(log, Served("create_job_description", <<>>, <<>>, None,
                                          RepeatJobDetails, <<UsedEnv(env, o.calls)>>,
                                          [o EXCEPT !.calls = <<o.calls>>], CurrentStore))
    /\ UNCHANGED <<unit, batch, last>>
    /\ UNCHANGED portal_vars

NextRepeat == RepeatScoreResume \/ RepeatBatch \/ RepeatCreateJobDescription

SpecRepeat == InitRepeat /\ [][NextRepeat]_vars

-----------------------------------------------------------------------------
(* Direct calls of generate_jd_from_llm with a mocked model *)

MaxListLen == 3    \* characters of a key_responsibilities text drawn freely

ListChars == {"a", " ", ",", ";"}

ResponsibilityTexts == SeqsUpTo(ListChars, MaxListLen) \cup {ExampleResponsibilities}

SkillTexts == {<<"a">>, <<"a", ";", " ", "a", ",">>}

InitJD == unit = NoUnit /\ InitMain

CallGenerateJD ==
    /\ unit.fn = ""
    /\ \E key_responsibilities \in ResponsibilityTexts, required_skills \in SkillTexts,
          llm \in JDResponses :
         LET job_details == JobRoleInput(<<"a">>, <<"a">>, key_responsibilities,
                                         required_skills, <<"a">>, <<"a">>, None)
             r == generate_jd_from_llm(job_details, llm)
         IN  unit' = [fn |-> "generate_jd_from_llm", args |-> <<job_details>>,
                      env |-> llm, ret |-> r.ret, calls |-> r.calls,
                      nth |-> 1, first |-> r.ret]
    /\ UNCHANGED <<applications, uploads, next_uuid, batch, last, log>>
    /\ UNCHANGED portal_vars

NextJD == CallGenerateJD \/ UnitDone

SpecJD == InitJD /\ [][NextJD]_vars

-----------------------------------------------------------------------------
(* Accounts, sessions, job postings and job applications (app/database.py).      *)
(*                                                                               *)
(* A table is the set of its rows; of a row the model keeps the key, the         *)
(* references to other tables and the columns the code decides on (e-mail,       *)
(* password hash, role, status, resume path), not the free text (names, titles,  *)
(* cover letters, timestamps).  A row or None (cursor.fetchone()) is a set with  *)
(* at most one element.  A NULL reference is 0 (the ids start at 1).  The        *)
(* database answers every statement: outages are not part of this section.       *)

\* str.lower() on the letters that occur in the model's addresses and file names
lower_char(c) ==
    IF c = "A" THEN "a" ELSE IF c = "B" THEN "b" ELSE IF c = "P" THEN "p"
    ELSE IF c = "D" THEN "d" ELSE IF c = "F" THEN "f" ELSE c

lower(s) == [i \in 1..Len(s) |-> lower_char(s[i])]

\* hashlib.sha256(password.encode()).hexdigest(): different passwords, different
\* digests
hash_password(password) == <<"sha256", password>>

\* The database and the uploads directory a request works on.
Db(us, ts, jps, jas, ids, apps, files, uuid) ==
    [users |-> us, tokens |-> ts, job_postings |-> jps, job_applications |-> jas,
     next_id |-> ids, applications |-> apps, uploads |-> files, next_uuid |-> uuid]

\* What a database function gives back: its result (or the exception it raises)
\* and the database after it.
DbResult(ret, db) == [ret |-> ret, db |-> db]

\* the columns of a users row that the SELECTs of get_user_by_token return
UserData(u) == [id |-> u.id, email |-> u.email, role |-> u.role]

\* A bug create_user could have: the address is stored and compared as typed.
create_user_as_typed(email, password, role, db) ==
    IF \E u \in db.users : u.email = email
    THEN DbResult({}, db)
    ELSE LET user == [id |-> db.next_id.users, email |-> email,
                      password_hash |-> hash_password(password), role |-> role]
         IN  DbResult({UserData(user)},
                      [db EXCEPT !.users = @ \cup {user}, !.next_id.users = @ + 1])

\* INSERT INTO users under email TEXT UNIQUE: the new user, or None on
\* psycopg2.IntegrityError
create_user(email, password, role, db) ==
    IF \E u \in db.users : u.email = lower(email)
    THEN DbResult({}, db)
    ELSE LET user == [id |-> db.next_id.users, email |-> lower(email),
                      password_hash |-> hash_password(password), role |-> role]
         IN  DbResult({UserData(user)},
                      [db EXCEPT !.users = @ \cup {user}, !.next_id.users = @ + 1])

\* SELECT * FROM users WHERE email = lower(email)
get_user_by_email(email, db) == {u \in db.users : u.email = lower(email)}

verify_password(email, password, db) ==
    \E u \in get_user_by_email(email, db) : u.password_hash = hash_password(password)

\* INSERT INTO tokens: a fresh token for the address
create_token(user_email, db) ==
    LET token == db.next_id.tokens
    IN  DbResult(token,
                 [db EXCEPT !.tokens = @ \cup {[token |-> token,
                                                user_email |-> lower(user_email)]},
                            !.next_id.tokens = @ + 1])

\* SELECT ... FROM tokens t JOIN users u ON t.user_email = u.email WHERE t.token = token
get_user_by_token(token, db) ==
    {UserData(u) : u \in {x \in db.users :
                             \E t \in db.tokens : t.token = token /\ t.user_email = x.email}}

\* A bug delete_token could have: every session of the token's user is closed.
delete_token_of_user(token, db) ==
    DbResult(\E t \in db.tokens : t.token = token,
             [db EXCEPT !.tokens =
                 {t \in @ : \A x \in @ : x.token = token => t.user_email # x.user_email}])

\* DELETE FROM tokens WHERE token = token; True if a row went
delete_token(token, db) ==
    DbResult(\E t \in db.tokens : t.token = token,
             [db EXCEPT !.tokens = {t \in @ : t.token # token}])

\* the CHECK constraints of init_db
JobPostingStatuses == {"active", "closed", "draft"}
JobApplicationStatuses == {"pending", "reviewed", "shortlisted", "rejected", "hired"}

\* INSERT INTO job_postings; the handlers leave status at its default 'active'
database_create_job_posting(created_by, status, db) ==
    LET job == [id |-> db.next_id.job_postings, status |-> status,
                created_by |-> created_by]
    IN  IF status \notin JobPostingStatuses
        THEN DbResult(Raise("CheckViolation", <<"job_postings_status_check">>), db)
        ELSE DbResult(Return(job),
                      [db EXCEPT !.job_postings = @ \cup {job},
                                 !.next_id.job_postings = @ + 1])

\* SELECT * FROM job_postings WHERE id = job_id
get_job_posting_by_id(job_id, db) == {j \in db.job_postings : j.id = job_id}

\* UPDATE job_postings SET status = status WHERE id = job_id; rowcount > 0
update_job_posting_status(job_id, status, db) ==
    IF get_job_posting_by_id(job_id, db) = {} THEN DbResult(Return(FALSE), db)
    ELSE IF status \notin JobPostingStatuses
    THEN DbResult(Raise("CheckViolation", <<"job_postings_status_check">>), db)
    ELSE DbResult(Return(TRUE),
                  [db EXCEPT !.job_postings =
                      {IF j.id = job_id THEN [j EXCEPT !.status = status] ELSE j : j \in @}])

\* DELETE FROM job_postings WHERE id = job_id; rowcount > 0.  job_applications.job_id
\* REFERENCES job_postings(id) with no ON DELETE clause: a posting that an
\* application refers to cannot be deleted.
delete_job_posting(job_id, db) ==
    IF get_job_posting_by_id(job_id, db) = {} THEN DbResult(Return(FALSE), db)
    ELSE IF \E a \in db.job_applications : a.job_id = job_id
    THEN DbResult(Raise("ForeignKeyViolation",
                        <<"update or delete on table job_postings violates foreign key constraint">>),
                  db)
    ELSE DbResult(Return(TRUE),
                  [db EXCEPT !.job_postings = {j \in @ : j.id # job_id}])

\* SELECT id FROM job_applications WHERE job_id = job_id AND candidate_id = candidate_id
check_existing_application(job_id, candidate_id, db) ==
    \E a \in db.job_applications : a.job_id = job_id /\ a.candidate_id = candidate_id

\* INSERT INTO job_applications with status 'pending'; the table has no UNIQUE
\* (job_id, candidate_id), its job_id REFERENCES job_postings(id)
create_job_application(job_id, candidate_id, candidate_email, resume_path, db) ==
    LET app == [id |-> db.next_id.job_applications, job_id |-> job_id,
                candidate_id |-> candidate_id, candidate_email |-> candidate_email,
                resume_path |-> resume_path, status |-> "pending"]
    IN  IF get_job_posting_by_id(job_id, db) = {}
        THEN DbResult(Raise("ForeignKeyViolation",
                            <<"insert or update on table job_applications violates foreign key constraint">>),
                      db)
        ELSE DbResult(Return(app),
                      [db EXCEPT !.job_applications = @ \cup {app},
                                 !.next_id.job_applications = @ + 1])

\* SELECT ja.* ... WHERE ja.candidate_id = candidate_id
get_job_applications_by_candidate(candidate_id, db) ==
    {a \in db.job_applications : a.candidate_id = candidate_id}

\* UPDATE job_applications SET status = status WHERE id = app_id; rowcount > 0
database_update_job_application_status(app_id, status, db) ==
    IF ~\E a \in db.job_applications : a.id = app_id THEN DbResult(Return(FALSE), db)
    ELSE IF status \notin JobApplicationStatuses
    THEN DbResult(Raise("CheckViolation", <<"job_applications_status_check">>), db)
    ELSE DbResult(Return(TRUE),
                  [db EXCEPT !.job_applications =
                      {IF a.id = app_id THEN [a EXCEPT !.status = status] ELSE a : a \in @}])

\* UPDATE applications SET status = status WHERE id = app_id; rowcount > 0.  The
\* column has no CHECK.
update_application_status(app_id, status, db) ==
    DbResult(\E k \in 1..Len(db.applications) : db.applications[k].id = app_id,
             [db EXCEPT !.applications =
                 [k \in 1..Len(@) |-> IF @[k].id = app_id
                                      THEN [@[k] EXCEPT !.status = status]
                                      ELSE @[k]]])

\* the scores of the rows whose score is not NULL
RECURSIVE NonNullScores(_)
NonNullScores(apps) ==
    IF apps = <<>> THEN <<>>
    ELSE IF Head(apps).score[1] = "int"
    THEN <<Head(apps).score[2]>> \o NonNullScores(Tail(apps))
    ELSE NonNullScores(Tail(apps))

RECURSIVE Sum(_)
Sum(ns) == IF ns = <<>> THEN 0 ELSE Head(ns) + Sum(Tail(ns))

\* int(x) of the quotient a / b: the fraction is cut off towards zero
IntOfQuotient(a, b) == IF a >= 0 THEN a \div b ELSE 0 - ((0 - a) \div b)

\* The first statement of get_application_stats, SELECT COUNT(*), AVG(score) FROM
\* applications, and what the code makes of its row.
stats_totals(db) ==
    LET scores == NonNullScores(db.applications)
    IN  [total |-> Len(db.applications),
         shortlisted |-> 0, rejected |-> 0, pending |-> 0,
         avg_score |-> IF scores = <<>> THEN 0 ELSE IntOfQuotient(Sum(scores), Len(scores))]

\* COUNT(*) of the rows with one status
CountStatus(apps, status) == Cardinality({k \in 1..Len(apps) : apps[k].status = status})

\* The second statement, SELECT status, COUNT(*) FROM applications GROUP BY status,
\* and the loop that copies the counts of the statuses that are keys of stats.
stats_by_status(stats, db) ==
    LET count(status, default) ==
            IF CountStatus(db.applications, status) > 0
            THEN CountStatus(db.applications, status) ELSE default
    IN  [total |-> count("total", stats.total),
         shortlisted |-> count("shortlisted", stats.shortlisted),
         rejected |-> count("rejected", stats.rejected),
         pending |-> count("pending", stats.pending),
         avg_score |-> count("avg_score", stats.avg_score)]

\* database.get_application_stats with both statements seeing the same rows
get_application_stats(db) == stats_by_status(stats_totals(db), db)

-----------------------------------------------------------------------------
(* The handlers of the accounts, job postings and job applications               *)
(* (app/main.py).  Each gives the response (or the exception that ends the       *)
(* request) and the database afterwards.                                         *)

Handled(response, db) == [response |-> response, db |-> db]

\* token: None (0) or a token
RegisterResponse(success, message, user) ==
    Return([success |-> success, message |-> message, user |-> user])

LoginResponse(success, message, user, token) ==
    Return([success |-> success, message |-> message, user |-> user, token |-> token])

\* {"success": ..., "message": ...}
Message(success, message) == Return([success |-> success, message |-> message])

\* JobPostingResponse and JobApplicationResponse: success, message and the row
RowResponse(success, message, row) ==
    Return([success |-> success, message |-> message, row |-> row])

\* POST /auth/register/
register(email, password, role, db) ==
    LET c == create_user(email, password, role, db)
    IN  IF c.ret = {}
        THEN Handled(RegisterResponse(FALSE, <<"Email already registered">>, {}), c.db)
        ELSE Handled(RegisterResponse(TRUE, <<"Registration successful">>, c.ret), c.db)

\* POST /auth/login/
login(email, password, db) ==
    IF ~verify_password(email, password, db)
    THEN Handled(LoginResponse(FALSE, <<"Invalid email or password">>, {}, 0), db)
    ELSE LET user_data == get_user_by_email(email, db)
             t == create_token(email, db)
         IN  Handled(LoginResponse(TRUE, <<"Login successful">>,
                                   {UserData(u) : u \in user_data}, t.ret),
                     t.db)

\* POST /auth/logout/
logout(token, db) ==
    LET d == delete_token(token, db)
    IN  IF d.ret THEN Handled(Message(TRUE, <<"Logged out successfully">>), d.db)
        ELSE Handled(Message(FALSE, <<"Invalid token">>), d.db)

\* GET /auth/me/
get_current_user(token, db) ==
    LET user_data == get_user_by_token(token, db)
    IN  IF user_data = {}
        THEN Handled(LoginResponse(FALSE, <<"Invalid or expired token">>, {}, 0), db)
        ELSE Handled(LoginResponse(TRUE, <<"User found">>, user_data, token), db)

\* A bug update_candidate_status could have: the status is not checked.
update_candidate_status_unchecked(app_id, status, db) ==
    LET u == update_application_status(app_id, status, db)
    IN  IF ~u.ret THEN Handled(HTTPException(404, <<"Application not found">>), u.db)
        ELSE Handled(Message(TRUE, <<"Status updated to ", status>>), u.db)

\* PUT /candidates/{app_id}/status/
update_candidate_status(app_id, status, db) ==
    IF status \notin {"pending", "shortlisted", "rejected"}
    THEN Handled(HTTPException(400, <<"Invalid status">>), db)
    ELSE LET u == update_application_status(app_id, status, db)
         IN  IF ~u.ret THEN Handled(HTTPException(404, <<"Application not found">>), u.db)
             ELSE Handled(Message(TRUE, <<"Status updated to ", status>>), u.db)

\* GET /dashboard/stats/ when nothing runs between the two statements
get_dashboard_stats(db) == Handled(Return(get_application_stats(db)), db)

\* POST /jobs/; token is None (0) or what the caller sent
create_job_posting(token, db) ==
    LET user_data == IF token # 0 THEN get_user_by_token(token, db) ELSE {}
        created_by == IF user_data = {} THEN 0 ELSE (CHOOSE u \in user_data : TRUE).id
        j == database_create_job_posting(created_by, "active", db)
    IN  IF j.ret.raised THEN Handled(j.ret, j.db)
        ELSE Handled(RowResponse(TRUE, <<"Job posting created successfully">>,
                                 j.ret.value),
                     j.db)

\* PUT /jobs/{job_id}/status/
update_job_status(job_id, status, db) ==
    IF status \notin {"active", "closed", "draft"}
    THEN Handled(HTTPException(400, <<"Invalid status">>), db)
    ELSE LET u == update_job_posting_status(job_id, status, db)
         IN  IF u.ret.raised THEN Handled(u.ret, u.db)
             ELSE IF ~u.ret.value THEN Handled(HTTPException(404, <<"Job not found">>), u.db)
             ELSE Handled(Message(TRUE, <<"Job status updated to ", status>>), u.db)

\* DELETE /jobs/{job_id}
delete_job(job_id, db) ==
    LET d == delete_job_posting(job_id, db)
    IN  IF d.ret.raised THEN Handled(d.ret, d.db)
        ELSE IF ~d.ret.value THEN Handled(HTTPException(404, <<"Job not found">>), d.db)
        ELSE Handled(Message(TRUE, <<"Job deleted successfully">>), d.db)

\* File(None), or an upload with an empty file name
NoUpload == Upload(<<>>, JunkBytes)

\* resume_path = None
NoPath == UniqueFilename(0, <<>>)

AllowedResumeExts ==
    {<<".", "p", "d", "f">>, <<".", "d", "o", "c", "x">>, <<".", "d", "o", "c">>}

\* What apply_to_job knows when it reaches its await: whether it goes on
\* (otherwise response is the exception raised), the user of the token and the
\* file name drawn for the resume.
Checked(proceeds, response, user_data, unique_filename, db) ==
    [proceeds |-> proceeds, response |-> response, user_data |-> user_data,
     unique_filename |-> unique_filename, db |-> db]

\* POST /jobs/{job_id}/apply/ up to await resume_file.read(): the token, the
\* posting, its status, an earlier application, the file type
apply_to_job_checks(job_id, token, resume_file, db) ==
    LET user_data == get_user_by_token(token, db)
        job_data == get_job_posting_by_id(job_id, db)
        stop(e) == Checked(FALSE, e, user_data, NoPath, db)
    IN  IF user_data = {} THEN stop(HTTPException(401, <<"Invalid or expired token">>))
        ELSE IF job_data = {} THEN stop(HTTPException(404, <<"Job not found">>))
        ELSE IF \E j \in job_data : j.status # "active"
        THEN stop(HTTPException(400, <<"This job is no longer accepting applications">>))
        ELSE IF check_existing_application(job_id, (CHOOSE u \in user_data : TRUE).id, db)
        THEN stop(HTTPException(400, <<"You have already applied to this job">>))
        ELSE IF resume_file.filename = <<>>
        THEN Checked(TRUE, Return(<<>>), user_data, NoPath, db)
        ELSE
    LET file_ext == splitext(resume_file.filename)[2]
    IN  IF lower(file_ext) \notin AllowedResumeExts
        THEN stop(HTTPException(400, <<"Only PDF and DOCX files are allowed">>))
        ELSE Checked(TRUE, Return(<<>>), user_data,
                     UniqueFilename(db.next_uuid, file_ext),
                     [db EXCEPT !.next_uuid = @ + 1])

\* ... and from there on: the file is written, the application inserted
apply_to_job_store(job_id, user_data, unique_filename, db) ==
    LET user == CHOOSE u \in user_data : TRUE
        db_w == IF unique_filename = NoPath THEN db
                ELSE [db EXCEPT !.uploads = @ \cup {unique_filename}]
        c == create_job_application(job_id, user.id, user.email, unique_filename, db_w)
    IN  IF c.ret.raised THEN Handled(c.ret, c.db)
        ELSE Handled(RowResponse(TRUE, <<"Application submitted successfully">>,
                                 c.ret.value),
                     c.db)

\* the whole of apply_to_job when no other request runs during its await
apply_to_job(job_id, token, resume_file, db) ==
    LET c == apply_to_job_checks(job_id, token, resume_file, db)
    IN  IF ~c.proceeds THEN Handled(c.response, c.db)
        ELSE apply_to_job_store(job_id, c.user_data, c.unique_filename, c.db)

\* GET /job-applications/my/
get_my_applications(token, db) ==
    LET user_data == get_user_by_token(token, db)
    IN  IF user_data = {}
        THEN Handled(HTTPException(401, <<"Invalid or expired token">>), db)
        ELSE Handled(Return([applications |->
                                get_job_applications_by_candidate(
                                    (CHOOSE u \in user_data : TRUE).id, db)]),
                     db)

\* PUT /job-applications/{app_id}/status/
update_job_application_status(app_id, status, db) ==
    IF status \notin {"pending", "reviewed", "shortlisted", "rejected", "hired"}
    THEN Handled(HTTPException(400, <<"Invalid status">>), db)
    ELSE LET u == database_update_job_application_status(app_id, status, db)
         IN  IF u.ret.raised THEN Handled(u.ret, u.db)
             ELSE IF ~u.ret.value
             THEN Handled(HTTPException(404, <<"Application not found">>), u.db)
             ELSE Handled(Message(TRUE, <<"Application status updated to ", status>>), u.db)

-----------------------------------------------------------------------------
(* The service with accounts, job postings and job applications.  The database   *)
(* is shared by every worker process of the service, so a request of one worker  *)
(* may run between two statements of a request of another; within one process    *)
(* the same happens where a handler awaits (await resume_file.read() in          *)
(* apply_to_job).  A request is one step, except apply_to_job, which is cut at   *)
(* its await, and get_application_stats, which is cut between its two SELECTs.   *)
(* A run is bounded by the number of requests that change the database.          *)

MaxPending == 2          \* requests between two of their statements at one time
MaxAuthRequests == 4     \* changing requests of a run of the accounts
MaxJobRequests == 7      \* ... of a run of the job postings and applications
MaxStatusRequests == 5   \* ... of a run of the status updates
MaxStatsRequests == 3    \* ... of a run of the dashboard

CurrentDb ==
    Db(users, tokens, job_postings, job_applications, next_id, applications, uploads,
       next_uuid)

\* the number of requests that changed the database so far
Changes == next_id.requests - 1

\* The database becomes db; counted says whether the step counts as a change.
SetDbCounted(db, counted) ==
    /\ users' = db.users
    /\ tokens' = db.tokens
    /\ job_postings' = db.job_postings
    /\ job_applications' = db.job_applications
    /\ applications' = db.applications
    /\ uploads' = db.uploads
    /\ next_uuid' = db.next_uuid
    /\ next_id' = IF counted THEN [db.next_id EXCEPT !.requests = @ + 1]
                  ELSE db.next_id

\* The database becomes db; a request that changed it is counted.
SetDb(db) == SetDbCounted(db, db # CurrentDb)

\* the request may be served in a run of at most budget changing requests
Within(db, budget) == db = CurrentDb \/ Changes < budget

NoArgs ==
    [email |-> <<>>, password |-> <<>>, role |-> "", token |-> 0, job_id |-> 0,
     app_id |-> 0, status |-> "", resume_file |-> NoUpload]

\* A finished request: its inputs, its response and the database when it began.
Request(op, args, response, before) ==
    [op |-> op, args |-> args, response |-> response, before |-> before]

NoStats == [total |-> 0, shortlisted |-> 0, rejected |-> 0, pending |-> 0, avg_score |-> 0]

\* A request between two of its statements: what it has read so far.
Suspended(slot, op, args, user_data, unique_filename, stats, before) ==
    [slot |-> slot, op |-> op, args |-> args, user_data |-> user_data,
     unique_filename |-> unique_filename, stats |-> stats, before |-> before]

FreeSlots == {n \in 1..MaxPending : \A p \in pending : p.slot # n}

\* the tokens a caller may send: those issued so far and one never issued
SomeTokens == 1..next_id.tokens
SomeJobIds == 1..next_id.job_postings
SomeJobApplicationIds == 1..next_id.job_applications
SomeApplicationIds == 1..next_uuid

\* POST /auth/register/
Register(emails, passwords, roles, budget) ==
    /\ \E email \in emails, password \in passwords, role \in roles :
         \E o \in {register(email, password, role, CurrentDb)} :
            /\ Within(o.db, budget)
            /\ SetDb(o.db)
            /\ last' = Request("register",
                               [NoArgs EXCEPT !.email = email, !.password = password,
                                              !.role = role],
                               o.response, CurrentDb)
    /\ UNCHANGED <<unit, batch, log, pending>>

\* POST /auth/login/
Login(emails, passwords, budget) ==
    /\ \E email \in emails, password \in passwords :
         \E o \in {login(email, password, CurrentDb)} :
            /\ Within(o.db, budget)
            /\ SetDb(o.db)
            /\ last' = Request("login",
                               [NoArgs EXCEPT !.email = email, !.password = password],
                               o.response, CurrentDb)
    /\ UNCHANGED <<unit, batch, log, pending>>

\* POST /auth/logout/
Logout(budget) ==
    /\ \E token \in SomeTokens :
         \E o \in {logout(token, CurrentDb)} :
            /\ Within(o.db, budget)
            /\ SetDb(o.db)
            /\ last' = Request("logout", [NoArgs EXCEPT !.token = token], o.response,
                               CurrentDb)
    /\ UNCHANGED <<unit, batch, log, pending>>

\* GET /auth/me/
GetCurrentUser ==
    /\ \E token \in SomeTokens :
         \E o \in {get_current_user(token, CurrentDb)} :
            /\ SetDb(o.db)
            /\ last' = Request("get_current_user", [NoArgs EXCEPT !.token = token],
                               o.response, CurrentDb)
    /\ UNCHANGED <<unit, batch, log, pending>>

\* GET /job-applications/my/
GetMyApplications ==
    /\ \E token \in SomeTokens :
         \E o \in {get_my_applications(token, CurrentDb)} :
            /\ SetDb(o.db)
            /\ last' = Request("get_my_applications", [NoArgs EXCEPT !.token = token],
                               o.response, CurrentDb)
    /\ UNCHANGED <<unit, batch, log, pending>>

\* POST /jobs/
CreateJobPosting(budget) ==
    /\ \E token \in {0} \cup SomeTokens :
         \E o \in {create_job_posting(token, CurrentDb)} :
            /\ Within(o.db, budget)
            /\ SetDb(o.db)
            /\ last' = Request("create_job_posting", [NoArgs EXCEPT !.token = token],
                               o.response, CurrentDb)
    /\ UNCHANGED <<unit, batch, log, pending>>

\* PUT /jobs/{job_id}/status/
UpdateJobStatus(statuses, budget) ==
    /\ \E job_id \in SomeJobIds, status \in statuses :
         \E o \in {update_job_status(job_id, status, CurrentDb)} :
            /\ Within(o.db, budget)
            /\ SetDb(o.db)
            /\ last' = Request("update_job_status",
                               [NoArgs EXCEPT !.job_id = job_id, !.status = status],
                               o.response, CurrentDb)
    /\ UNCHANGED <<unit, batch, log, pending>>

\* DELETE /jobs/{job_id}
DeleteJob(budget) ==
    /\ \E job_id \in SomeJobIds :
         \E o \in {delete_job(job_id, CurrentDb)} :
            /\ Within(o.db, budget)
            /\ SetDb(o.db)
            /\ last' = Request("delete_job", [NoArgs EXCEPT !.job_id = job_id],
                               o.response, CurrentDb)
    /\ UNCHANGED <<unit, batch, log, pending>>

\* POST /jobs/{job_id}/apply/ with no other request during its await
ApplyToJob(resume_files, budget) ==
    /\ \E job_id \in SomeJobIds, token \in SomeTokens, resume_file \in resume_files :
         \E o \in {apply_to_job(job_id, token, resume_file, CurrentDb)} :
            /\ Within(o.db, budget)
            /\ SetDb(o.db)
            /\ last' = Request("apply_to_job",
                               [NoArgs EXCEPT !.job_id = job_id, !.token = token,
                                              !.resume_file = resume_file],
                               o.response, CurrentDb)
    /\ UNCHANGED <<unit, batch, log, pending>>

\* POST /jobs/{job_id}/apply/ arrives and runs to its await, or to the exception
\* that ends it
ApplyToJobChecks(resume_files, budget) ==
    /\ \E job_id \in SomeJobIds, token \in SomeTokens, resume_file \in resume_files :
         \E c \in {apply_to_job_checks(job_id, token, resume_file, CurrentDb)} :
            LET args == [NoArgs EXCEPT !.job_id = job_id, !.token = token,
                                       !.resume_file = resume_file]
            IN  IF c.proceeds
                THEN /\ FreeSlots # {}
                     /\ Changes < budget
                     /\ pending' = pending \cup
                           {Suspended(CHOOSE n \in FreeSlots : \A m \in FreeSlots : n <= m,
                                      "apply_to_job", args, c.user_data,
                                      c.unique_filename, NoStats, CurrentDb)}
                     /\ SetDbCounted(c.db, TRUE)
                     /\ last' = last
                ELSE /\ SetDb(c.db)
                     /\ last' = Request("apply_to_job", args, c.response, CurrentDb)
                     /\ pending' = pending
    /\ UNCHANGED <<unit, batch, log>>

\* a suspended apply_to_job goes on: the file is written, the application inserted
ApplyToJobStore ==
    /\ \E p \in pending :
         /\ p.op = "apply_to_job"
         /\ \E o \in {apply_to_job_store(p.args.job_id, p.user_data, p.unique_filename,
                                         CurrentDb)} :
              /\ SetDb(o.db)
              /\ last' = Request("apply_to_job", p.args, o.response, p.before)
              /\ pending' = pending \ {p}
    /\ UNCHANGED <<unit, batch, log>>

\* PUT /job-applications/{app_id}/status/
UpdateJobApplicationStatus(statuses, budget) ==
    /\ \E app_id \in SomeJobApplicationIds, status \in statuses :
         \E o \in {update_job_application_status(app_id, status, CurrentDb)} :
            /\ Within(o.db, budget)
            /\ SetDb(o.db)
            /\ last' = Request("update_job_application_status",
                               [NoArgs EXCEPT !.app_id = app_id, !.status = status],
                               o.response, CurrentDb)
    /\ UNCHANGED <<unit, batch, log, pending>>

\* PUT /candidates/{app_id}/status/
UpdateCandidateStatus(statuses, budget) ==
    /\ \E app_id \in SomeApplicationIds, status \in statuses :
         \E o \in {update_candidate_status(app_id, status, CurrentDb)} :
            /\ Within(o.db, budget)
            /\ SetDb(o.db)
            /\ last' = Request("update_candidate_status",
                               [NoArgs EXCEPT !.app_id = app_id, !.status = status],
                               o.response, CurrentDb)
    /\ UNCHANGED <<unit, batch, log, pending>>

\* POST /score_resume/ with a readable PDF, the disk and the database up
ScoreReadableResume(llms, budget) ==
    /\ \E llm \in llms :
         \E o \in {score_resume(<<"a">>, Upload(PdfName, PdfBytes), None,
                                Env(OCROk(<<Page(<<"a">>)>>), llm, TRUE, TRUE),
                                CurrentStore)} :
            \E db \in {[CurrentDb EXCEPT !.applications = o.st.applications,
                                         !.uploads = o.st.uploads,
                                         !.next_uuid = o.st.next_uuid]} :
               /\ Within(db, budget)
               /\ SetDb(db)
               /\ last' = Request("score_resume",
                                  [NoArgs EXCEPT !.resume_file = Upload(PdfName, PdfBytes)],
                                  o.response, CurrentDb)
    /\ UNCHANGED <<unit, batch, log, pending>>

\* GET /dashboard/stats/ arrives: the first SELECT of get_application_stats
StatsTotals ==
    /\ FreeSlots # {}
    /\ pending' = pending \cup
          {Suspended(CHOOSE n \in FreeSlots : \A m \in FreeSlots : n <= m,
                     "get_dashboard_stats", NoArgs, {}, NoPath, stats_totals(CurrentDb),
                     CurrentDb)}
    /\ UNCHANGED <<unit, batch, log, last, applications, uploads, next_uuid, users, tokens,
                   job_postings, job_applications, next_id>>

\* ... its second SELECT, and the response
StatsByStatus ==
    /\ \E p \in pending :
         /\ p.op = "get_dashboard_stats"
         /\ last' = Request("get_dashboard_stats", p.args,
                            Return(stats_by_status(p.stats, CurrentDb)), p.before)
         /\ pending' = pending \ {p}
    /\ UNCHANGED <<unit, batch, log, applications, uploads, next_uuid, users, tokens,
                   job_postings, job_applications, next_id>>

\* What the callers send.
Emails == {<<"a">>, <<"A">>, <<"b">>}
Passwords == {<<"p">>, <<"q">>}
Roles == {"hr", "candidate"}
ResumeFiles == {NoUpload, Upload(TxtName, JunkBytes)}
StatusInputs == {"shortlisted", "closed", "hired", "archived"}

\* The accounts and sessions.
NextAuth ==
    \/ Register(Emails, Passwords, Roles, MaxAuthRequests)
    \/ Login(Emails, Passwords, MaxAuthRequests)
    \/ Logout(MaxAuthRequests)
    \/ GetCurrentUser
    \/ GetMyApplications
    \/ ApplyToJobChecks({NoUpload}, MaxAuthRequests)

SpecAuth == Init /\ [][NextAuth]_vars

\* Job postings and applications to them, by one account.
NextJobs ==
    \/ Register({<<"a">>}, {<<"p">>}, Roles, MaxJobRequests)
    \/ Login({<<"a">>}, {<<"p">>}, MaxJobRequests)
    \/ CreateJobPosting(MaxJobRequests)
    \/ UpdateJobStatus({"closed"}, MaxJobRequests)
    \/ DeleteJob(MaxJobRequests)
    \/ ApplyToJobChecks({Upload(PdfName, PdfBytes)}, MaxJobRequests)
    \/ ApplyToJobStore

SpecJobs == Init /\ [][NextJobs]_vars

\* The status of scored applications, job postings and job applications, the
\* requests served one at a time.
NextStatus ==
    \/ Register({<<"a">>}, {<<"p">>}, {"candidate"}, MaxStatusRequests)
    \/ Login({<<"a">>}, {<<"p">>}, MaxStatusRequests)
    \/ CreateJobPosting(MaxStatusRequests)
    \/ UpdateJobStatus(StatusInputs, MaxStatusRequests)
    \/ DeleteJob(MaxStatusRequests)
    \/ ApplyToJob(ResumeFiles, MaxStatusRequests)
    \/ UpdateJobApplicationStatus(StatusInputs, MaxStatusRequests)
    \/ ScoreReadableResume({LLMOk(ToJSON(FullAnswer))}, MaxStatusRequests)
    \/ UpdateCandidateStatus(StatusInputs, MaxStatusRequests)

SpecStatus == Init /\ [][NextStatus]_vars

\* The dashboard while resumes are scored and candidates' statuses change.
NextStats ==
    \/ ScoreReadableResume({LLMOk(ToJSON(FullAnswer))}, MaxStatsRequests)
    \/ UpdateCandidateStatus({"shortlisted", "rejected"}, MaxStatsRequests)
    \/ StatsTotals
    \/ StatsByStatus

SpecStats == Init /\ [][NextStats]_vars

-----------------------------------------------------------------------------
(* Claims about extract_resume_text *)

ExtractCalled == unit.fn = "extract_resume_text"
ExtractBytes == unit.args[1]
ExtractType == unit.args[2]

\* The text of part i starts after offset Offset(parts, i) of the joined text.
RECURSIVE Offset(_, _)
Offset(parts, i) == IF i = 1 THEN 0 ELSE Offset(parts, i - 1) + Len(parts[i - 1]) + 1

\* text holds the parts in order, one separator character between neighbours and
\* nothing else.
IsJoinOf(text, sepchar, parts) ==
    LET n == Len(parts)
    IN  /\ Len(text) = IF n = 0 THEN 0 ELSE Offset(parts, n) + Len(parts[n])
        /\ \A i \in 1..n :
              /\ SubSeq(text, Offset(parts, i) + 1, Offset(parts, i) + Len(parts[i]))
                    = parts[i]
              /\ i < n => text[Offset(parts, i) + Len(parts[i]) + 1] = sepchar

\* C5: for every declared type outside {"pdf", "docx"}, extract_resume_text returns
\* the empty string, raises nothing and calls neither the OCR service nor the DOCX
\* parser.
C5_OtherTypeEmpty ==
    (ExtractCalled /\ ExtractType \notin {"pdf", "docx"}) =>
        /\ ~unit.ret.raised
        /\ unit.ret.value = <<>>
        /\ unit.calls = <<>>

C5_Witness ==
    /\ ExtractCalled
    /\ ExtractType = "txt"
    /\ ExtractBytes = Docx(<<<<"a">>>>)
    /\ unit.ret = Return(<<>>)

\* C6: for a PDF whose OCR call succeeds, the text is the pages' markdown in page
\* order with one space between neighbours; a page without the markdown key counts
\* as the empty string and raises nothing.
C6_PdfJoin ==
    (ExtractCalled /\ ExtractType = "pdf" /\ unit.env.ok) =>
        /\ ~unit.ret.raised
        /\ IsJoinOf(unit.ret.value, " ",
                    [i \in 1..Len(unit.env.pages) |->
                        IF unit.env.pages[i].markdown = Absent
                        THEN <<>> ELSE unit.env.pages[i].markdown])

C6_Witness ==
    /\ ExtractCalled
    /\ ExtractType = "pdf"
    /\ unit.env.ok
    /\ Len(unit.env.pages) = 2
    /\ unit.env.pages[1].markdown = Absent
    /\ unit.env.pages[2].markdown = <<"a">>
    /\ unit.ret = Return(<<" ", "a">>)

\* C7: a failed OCR call or a failed DOCX parse makes extract_resume_text raise
\* HTTPException 500 whose detail carries the underlying message; no text is
\* returned.
C7_ExtractionFailure ==
    /\ (ExtractCalled /\ ExtractType = "pdf" /\ ~unit.env.ok) =>
          /\ unit.ret.raised
          /\ unit.ret.exc = "HTTPException"
          /\ unit.ret.status_code = 500
          /\ \E i \in 1..Len(unit.ret.detail) : unit.ret.detail[i] = unit.env.err
    /\ (ExtractCalled /\ ExtractType = "docx" /\ ExtractBytes.fmt # "docx") =>
          /\ unit.ret.raised
          /\ unit.ret.exc = "HTTPException"
          /\ unit.ret.status_code = 500
          /\ \E i \in 1..Len(unit.ret.detail) :
                unit.ret.detail[i] = docx_Document(ExtractBytes).err

C7_Witness ==
    /\ ExtractCalled
    /\ ExtractType = "pdf"
    /\ unit.env = OCRFail("timed out")
    /\ unit.ret = HTTPException(500, <<"OCR processing failed: ", "timed out">>)

\* C8: for a DOCX, the text is the paragraphs' text in document order with one
\* newline between neighbours.
C8_DocxJoin ==
    (ExtractCalled /\ ExtractType = "docx" /\ ExtractBytes.fmt = "docx") =>
        /\ ~unit.ret.raised
        /\ IsJoinOf(unit.ret.value, "\n", ExtractBytes.paragraphs)

C8_Witness ==
    /\ ExtractCalled
    /\ ExtractType = "docx"
    /\ ExtractBytes = Docx(<<<<"a">>, <<" ">>>>)
    /\ unit.ret = Return(<<"a", "\n", " ">>)

-----------------------------------------------------------------------------
(* Claims about get_llm_score *)

ScoreCalled == unit.fn = "get_llm_score"

RECURSIVE JSONValueEnd(_, _)
RECURSIVE JSONMembersEnd(_, _)

\* RFC 8259 member *( "," member ) "}" from token i: the index after it, 0 if none
JSONMembersEnd(toks, i) ==
    IF i + 2 > Len(toks) \/ toks[i].kind # "str" \/ toks[i + 1] # Colon THEN 0
    ELSE LET e == JSONValueEnd(toks, i + 2)
         IN  IF e = 0 \/ e > Len(toks) THEN 0
             ELSE IF toks[e] = RBrace THEN e + 1
             ELSE IF toks[e] = Comma THEN JSONMembersEnd(toks, e + 1)
             ELSE 0

\* RFC 8259 value from token i: the index after it, 0 if none starts there.  The
\* grammar has number, string, null and object here; NaN is no JSON value.
JSONValueEnd(toks, i) ==
    IF i > Len(toks) THEN 0
    ELSE IF toks[i].kind \in {"num", "str"} \/ toks[i] = NullTok THEN i + 1
    ELSE IF toks[i] = LBrace
    THEN IF i + 1 <= Len(toks) /\ toks[i + 1] = RBrace THEN i + 2
         ELSE JSONMembersEnd(toks, i + 1)
    ELSE 0

\* the text is one JSON value and nothing else
IsJSONText(toks) == JSONValueEnd(toks, 1) = Len(toks) + 1

\* C9: when the model's response is a JSON text of a value v, get_llm_score returns
\* exactly v; every valid JSON response is returned parsed, not raised; and a further
\* call under the same mocked response returns the same result as the first.
C9_ValidJSONReturned ==
    ScoreCalled =>
        /\ \A v \in JValues :
             (unit.env.ok /\ unit.env.content = JSONTextOf[v]) => unit.ret = Return(v)
        /\ (unit.env.ok /\ IsJSONText(unit.env.content)) => ~unit.ret.raised
        /\ unit.nth = 2 => unit.ret = unit.first

C9_Witness ==
    /\ ScoreCalled
    /\ unit.nth = 2
    /\ unit.args = <<<<"a", "\n">>, <<"a", " ", "a">>>>
    /\ unit.env.content =
         <<LBrace, StrTok("score"), Colon, Tok("num", "87.5", 875), Comma,
           StrTok("explanation"), Colon, StrTok("Strong match"), RBrace>>
    /\ unit.ret = Return(JObj([score |-> JNum(875), explanation |-> JStr("Strong match")]))

\* C10: when the model's response text is not valid JSON, get_llm_score raises
\* HTTPException 500 'LLM returned a non-JSON response.' and returns no score.
C10_NonJSONRejected ==
    (ScoreCalled /\ unit.env.ok /\ ~IsJSONText(unit.env.content)) =>
        unit.ret = HTTPException(500, <<"LLM returned a non-JSON response.">>)

\* C11: the two failure kinds of get_llm_score are distinct.  A failed model call
\* (transport, auth, rate limit, model error) raises HTTPException 500 whose detail
\* is the wrapping message followed by the underlying error, never the non-JSON
\* message; a response that fails to parse raises the non-JSON message, never the
\* wrapping one; and no other error is raised.
C11_FailureKindsDistinct ==
    ScoreCalled =>
        /\ ~unit.env.ok =>
              /\ unit.ret =
                    HTTPException(500, <<"An error occurred with the LLM: ", unit.env.err>>)
              /\ \A k \in 1..Len(unit.ret.detail) :
                    unit.ret.detail[k] # "LLM returned a non-JSON response."
        /\ (unit.env.ok /\ unit.ret.raised) =>
              /\ ~IsJSONText(unit.env.content)
              /\ unit.ret = HTTPException(500, <<"LLM returned a non-JSON response.">>)
              /\ \A k \in 1..Len(unit.ret.detail) :
                    unit.ret.detail[k] # "An error occurred with the LLM: "

C11_Witness ==
    /\ ScoreCalled
    /\ unit.env = LLMFail("429 rate limit")
    /\ unit.ret = HTTPException(500, <<"An error occurred with the LLM: ", "429 rate limit">>)

-----------------------------------------------------------------------------
(* Claims about score_resume and score_resumes_batch *)

BatchDone == last.op = "score_resumes_batch"
ResumeDone == last.op = "score_resume"
Results == last.response.value

Min(a, b) == IF a < b THEN a ELSE b

\* the part of a file name from its last ".", empty if it has none
RECURSIVE Suffix(_)
Suffix(name) ==
    IF name = <<>> THEN <<>>
    ELSE IF \E j \in 2..Len(name) : name[j] = "." THEN Suffix(Tail(name))
    ELSE IF Head(name) = "." THEN name
    ELSE <<>>

IsBlank(text) == \A i \in 1..Len(text) : IsSpace(text[i])

Called(i, svc) == CallsOf(last.calls[i], svc) # {}

\* The text extraction yields for file i of the last request, as the services
\* answered.
Extracted(i) ==
    extract_resume_text(last.files[i].file_bytes,
                        IF Suffix(last.files[i].filename) = <<".", "p", "d", "f">>
                        THEN "pdf" ELSE "docx",
                        last.envs[i].ocr).ret

Supported(i) ==
    Suffix(last.files[i].filename) \in {<<".", "p", "d", "f">>, <<".", "d", "o", "c", "x">>}

\* C1: a batch of n resumes returns exactly min(n, 5) entries, entry i carrying the
\* filename of the i-th file; every one of the first 5 files is processed whatever
\* happened to the files before it (a supported file is sent to extraction).
C1_BatchPositional ==
    /\ batch.active => Len(batch.results) = batch.i - 1
    /\ BatchDone =>
         /\ ~last.response.raised
         /\ Len(Results) = Min(Len(last.files), 5)
         /\ \A i \in 1..Len(Results) :
              /\ Results[i].filename = last.files[i].filename
              /\ Supported(i) => Called(i, "ocr.process") \/ Called(i, "docx.Document")

C1_Witness ==
    /\ BatchDone
    /\ Len(last.files) = 6
    /\ Len(Results) = 5
    /\ Results[1].score = JNum(0)
    /\ Results[2].score = JNum(0)
    /\ Results[3].score = JNum(875)
    /\ Results[5].filename = PdfName

\* The step at which the processing of item i failed, with the underlying error text;
\* "" if no step failed.
FailureText(i) ==
    LET f == last.files[i]
        e == last.envs[i]
    IN  IF ~Supported(i)
        THEN "Unsupported file format. Please upload a .pdf or .docx file."
        ELSE IF Called(i, "ocr.process") /\ ~e.ocr.ok THEN e.ocr.err
        ELSE IF Called(i, "docx.Document") /\ f.file_bytes.fmt # "docx"
        THEN docx_Document(f.file_bytes).err
        ELSE IF Called(i, "llm.invoke") /\ ~e.llm.ok THEN e.llm.err
        ELSE IF Called(i, "llm.invoke") /\ ~IsJSONText(e.llm.content)
        THEN "LLM returned a non-JSON response."
        ELSE IF Called(i, "open.write") /\ ~e.disk_ok THEN "No space left on device"
        ELSE IF Called(i, "db.insert") /\ ~e.db_up THEN "connection refused"
        ELSE ""

\* C2: in a batch, an item whose processing fails at type detection, extraction,
\* scoring, file save or persistence gets an entry with score 0 and an explanation
\* that holds the error text, and the batch request still returns its results.
C2_BatchDegraded ==
    BatchDone =>
        /\ ~last.response.raised
        /\ \A i \in 1..Len(Results) :
             FailureText(i) # "" =>
                /\ Results[i].score = JNum(0)
                /\ Results[i].explanation[1] = "Error processing file: "
                /\ \E k \in 2..Len(Results[i].explanation) :
                     Results[i].explanation[k] = FailureText(i)

C2_Witness ==
    /\ BatchDone
    /\ Len(Results) = 3
    /\ FailureText(1) = "No space left on device"
    /\ FailureText(2) = "File is not a zip file"
    /\ FailureText(3) = "connection refused"
    /\ Results[3].explanation = <<"Error processing file: ", "connection refused">>

\* the resume texts the scoring model was called with during item i
ScoredTexts(i) == {last.calls[i][k].arg[4] : k \in CallsOf(last.calls[i], "llm.invoke")}

\* C3: the scoring model is never called with empty or whitespace-only text; on such
\* an extraction score_resume answers 400 with no model call, no file saved and no
\* application stored, and the batch appends a score-0 entry with no model call.
C3_NoBlankScoring ==
    (ResumeDone \/ BatchDone) =>
    \A i \in 1..Len(last.calls) :
        /\ \A text \in ScoredTexts(i) : ~IsBlank(text)
        /\ (Supported(i) /\ ~Extracted(i).raised /\ IsBlank(Extracted(i).value)) =>
              /\ ~Called(i, "llm.invoke")
              /\ ~Called(i, "open.write")
              /\ ~Called(i, "db.insert")
              /\ ResumeDone =>
                    /\ last.response.raised
                    /\ last.response.exc = "HTTPException"
                    /\ last.response.status_code = 400
                    /\ applications = last.before.applications
                    /\ uploads = last.before.uploads
              /\ BatchDone => Results[i].score = JNum(0)

C3_Witness ==
    /\ ResumeDone
    /\ last.files[1].filename = PdfName
    /\ last.envs[1].ocr = OCROk(<<Page(<<" ">>), Page(Absent)>>)
    /\ last.response =
         HTTPException(400, <<"Could not extract any text from the resume.">>)

\* C4: score_resume rejects an upload whose declared type is neither PDF nor DOCX
\* with HTTP 400 (unsupported format) before extraction: no OCR, DOCX parsing or
\* model call is made and nothing is saved or stored.
C4_UnsupportedRejected ==
    (ResumeDone /\ ~Supported(1)) =>
        /\ last.response.raised
        /\ last.response.exc = "HTTPException"
        /\ last.response.status_code = 400
        /\ last.response.detail =
             <<"Unsupported file format. Please upload a .pdf or .docx file.">>
        /\ last.calls = <<<<>>>>
        /\ applications = last.before.applications
        /\ uploads = last.before.uploads
        /\ next_uuid = last.before.next_uuid

C4_Witness ==
    /\ ResumeDone
    /\ last.files[1] = Upload(UpperName, PdfBytes)
    /\ last.response.status_code = 400
    /\ last.calls = <<<<>>>>

-----------------------------------------------------------------------------
(* Claims about the score that is returned and stored *)

\* the value the scoring model reported under the key "score" during item i of the
\* last request, Absent if its answer was no object with that key
ReportedScore(i) ==
    LET e == last.envs[i].llm
        v == IF e.ok THEN json_loads(e.content) ELSE ParseFail
    IN  IF Called(i, "llm.invoke") /\ v.ok /\ IsDict(v.value)
        THEN DictGet(v.value[2], "score", Absent)
        ELSE Absent

\* the rows the last request added to the applications table
NewRows ==
    SubSeq(applications, Len(last.before.applications) + 1, Len(applications))

OutOfRange(n) == n < 0 \/ n > 1000

\* C12: a model-reported score below 0 or above 100 is never clamped: a score_resume
\* request that succeeds returns it unchanged and stores exactly one application
\* whose score is that same number.
C12_ScoreUnchanged ==
    (/\ ResumeDone
     /\ ~last.response.raised
     /\ ReportedScore(1) # Absent
     /\ ReportedScore(1)[1] = "num"
     /\ OutOfRange(ReportedScore(1)[2])) =>
        /\ last.response.value.score = ReportedScore(1)
        /\ Len(NewRows) = 1
        /\ NewRows[1].score[1] = "int"
        /\ NewRows[1].score[2] * 10 = ReportedScore(1)[2]

\* C13: every score returned by score_resume or by a batch entry, and every score
\* stored in the applications table, is a number in [0, 100].
C13_ScoreInRange ==
    /\ \A k \in 1..Len(applications) :
          /\ applications[k].score[1] = "int"
          /\ applications[k].score[2] \in 0..100
    /\ (ResumeDone /\ ~last.response.raised) =>
          /\ last.response.value.score[1] = "num"
          /\ last.response.value.score[2] \in 0..1000
    /\ BatchDone =>
          \A i \in 1..Len(Results) :
             /\ Results[i].score[1] = "num"
             /\ Results[i].score[2] \in 0..1000

\* C20: score_resume stores an application and saves a resume file only for a
\* request that returns a ScoreResponse; a request that ends in an error leaves
\* the applications table and the uploads directory as they were.
C20_AllOrNothing ==
    (ResumeDone /\ last.response.raised) =>
        /\ applications = last.before.applications
        /\ uploads = last.before.uploads

\* entry i of the batch response is a degraded one: score 0 with an error explanation
Degraded(i) ==
    /\ Results[i].score = JNum(0)
    /\ Results[i].explanation[1] \in
          {"Error processing file: ", "Could not extract text from this file."}

\* the rows of the applications table that item i of the last request inserted
RowsOf(i) ==
    {k \in 1..Len(applications) :
        \E c \in CallsOf(last.calls[i], "db.insert") :
            applications[k].resume_path = last.calls[i][c].arg}

\* C21: in score_resumes_batch, an item reported as a degraded entry (score 0 with
\* an error explanation) has no application record persisted for it, and every item
\* reported with a normal score has exactly one application record persisted with
\* that score and explanation.
C21_DegradedNotStored ==
    BatchDone =>
        \A i \in 1..Len(Results) :
            /\ Degraded(i) => RowsOf(i) = {}
            /\ ~Degraded(i) =>
                  /\ Cardinality(RowsOf(i)) = 1
                  /\ \A k \in RowsOf(i) :
                        /\ applications[k].score[1] = "int"
                        /\ applications[k].score[2] * 10 = Results[i].score[2]
                        /\ applications[k].match_details =
                             SqlText(Results[i].explanation[1])

-----------------------------------------------------------------------------
(* Claims about generate_jd_from_llm *)

JDCalled == unit.fn = "generate_jd_from_llm"

\* the text with "\n- " in the place of every "," and every ";", every other
\* character where it was
RECURSIVE Bulleted(_)
Bulleted(text) ==
    IF text = <<>> THEN <<>>
    ELSE (IF Head(text) \in {",", ";"} THEN <<"\n", "-", " ">> ELSE <<Head(text)>>)
            \o Bulleted(Tail(text))

\* the lists of the prompt that generate_jd_from_llm sent
PromptResponsibilities == unit.calls[1].arg[10]
PromptSkills == unit.calls[1].arg[12]

\* C18: the generator cuts key_responsibilities and required_skills at every ","
\* and every ";" and nowhere else, trimming and escaping nothing: the bullet lists
\* of the prompt are the texts with each separator turned into an item break, and
\* "Write code, Review PRs; Mentor juniors" gives the items "Write code",
\* " Review PRs", " Mentor juniors" in that order.
C18_NaiveSplit ==
    JDCalled =>
        /\ PromptResponsibilities = Bulleted(unit.args[1].key_responsibilities)
        /\ PromptSkills = Bulleted(unit.args[1].required_skills)
        /\ unit.args[1].key_responsibilities = ExampleResponsibilities =>
              /\ split(replace(unit.args[1].key_responsibilities, ";", ","), ",") =
                    << <<"W", "r", "i", "t", "e", " ", "c", "o", "d", "e">>,
                       <<" ", "R", "e", "v", "i", "e", "w", " ", "P", "R", "s">>,
                       <<" ", "M", "e", "n", "t", "o", "r", " ", "j", "u", "n", "i", "o",
                         "r", "s">> >>
              /\ PromptResponsibilities =
                 <<"W", "r", "i", "t", "e", " ", "c", "o", "d", "e">>
                    \o <<"\n", "-", " ">>
                    \o <<" ", "R", "e", "v", "i", "e", "w", " ", "P", "R", "s">>
                    \o <<"\n", "-", " ">>
                    \o <<" ", "M", "e", "n", "t", "o", "r", " ", "j", "u", "n", "i", "o",
                         "r", "s">>

C18_Witness ==
    /\ JDCalled
    /\ unit.args[1].key_responsibilities = ExampleResponsibilities
    /\ unit.args[1].required_skills = <<"a", ";", " ", "a", ",">>
    /\ PromptSkills = <<"a", "\n", "-", " ", " ", "a", "\n", "-", " ">>
    /\ Len(PromptResponsibilities) = 42

\* C19: generate_jd_from_llm returns the model's completion as it came, parsed by
\* nothing, whatever it looks like; when the model call fails it raises
\* HTTPException 500 whose detail carries the underlying message and returns no
\* text.
C19_CompletionUnchanged ==
    JDCalled =>
        /\ unit.env.ok => unit.ret = Return(unit.env.content)
        /\ ~unit.env.ok =>
              /\ unit.ret.raised
              /\ unit.ret.exc = "HTTPException"
              /\ unit.ret.status_code = 500
              /\ unit.ret.detail[Len(unit.ret.detail)] = unit.env.err
              /\ unit.ret.value = <<>>

C19_Witness ==
    /\ JDCalled
    /\ unit.env = LLMOk(<<WordTok("About"), WordTok("Us")>>)
    /\ unit.ret = Return(<<WordTok("About"), WordTok("Us")>>)

-----------------------------------------------------------------------------
(* Claims about the calls a request makes *)

\* how many times the calls made for one item went to the service svc
Count(calls, svc) == Cardinality(CallsOf(calls, svc))

AtMostOnce(calls) ==
    /\ Count(calls, "ocr.process") <= 1
    /\ Count(calls, "llm.invoke") <= 1

\* C14: nothing is retried.  Within one score_resume request, one batch item and
\* one create_job_description request the OCR service is called at most once and
\* the language model at most once, also when the call failed.
C14_NoRetry ==
    /\ \A i \in 1..Len(last.calls) : AtMostOnce(last.calls[i])
    /\ \A i \in 1..Len(batch.calls) : AtMostOnce(batch.calls[i])
    /\ last.op = "create_job_description" => Count(last.calls[1], "llm.invoke") = 1

C14_Witness ==
    /\ ResumeDone
    /\ last.envs[1].ocr = OCROk(<<Page(<<"a">>)>>)
    /\ last.envs[1].llm = LLMFail("429 rate limit")
    /\ Count(last.calls[1], "ocr.process") = 1
    /\ Count(last.calls[1], "llm.invoke") = 1
    /\ last.response =
         HTTPException(500, <<"An error occurred with the LLM: ", "429 rate limit">>)

\* call k of item i hands the bytes of file i to the OCR service or the DOCX parser
ExtractionOf(i, k) ==
    LET c == last.calls[i][k]
    IN  \/ c.svc = "ocr.process" /\ c.arg[2].b64 = last.files[i].file_bytes
        \/ c.svc = "docx.Document" /\ c.arg = last.files[i].file_bytes

\* C15: in score_resume and in every batch item the scoring model is called only
\* after the extraction of that item's file has returned a text, and the resume
\* text of the prompt is exactly that text.
C15_ExtractThenScore ==
    (ResumeDone \/ BatchDone) =>
        \A i \in 1..Len(last.calls) :
            \A k \in CallsOf(last.calls[i], "llm.invoke") :
                /\ \E j \in 1..(k - 1) : ExtractionOf(i, j)
                /\ Supported(i)
                /\ ~Extracted(i).raised
                /\ last.calls[i][k].arg[4] = Extracted(i).value
                /\ last.calls[i][k].arg[2] = last.job_description

C15_Witness ==
    /\ BatchDone
    /\ Len(last.files) = 2
    /\ last.calls[1] = <<>>
    /\ last.files[2] = Upload(PdfName, PdfBytes)
    /\ Len(last.calls[2]) >= 2
    /\ last.calls[2][1] = OCRCall(PdfBytes)
    /\ last.calls[2][2].svc = "llm.invoke"
    /\ last.calls[2][2].arg[4] = <<"a">>

-----------------------------------------------------------------------------
(* Claims about requests served one after another *)

\* the score_resume requests of the run that returned a ScoreResponse
Successes == {i \in 1..Len(log) : log[i].op = "score_resume" /\ ~log[i].response.raised}

SamePair(i, j) ==
    /\ log[i].files = log[j].files
    /\ log[i].job_description = log[j].job_description

Extractions(calls) == Count(calls, "ocr.process") + Count(calls, "docx.Document")

\* where the row that request i added stands in the applications table
RowIndex(i) == Len(log[i].before.applications) + 1

\* C16: nothing is memoized or deduplicated.  Every successful score_resume
\* request runs one extraction and one model call of its own and adds one
\* application of its own, earlier ones untouched; so k successful requests for
\* the same resume and job description leave k applications with k distinct ids.
C16_NoMemoization ==
    /\ \A i \in Successes :
          /\ Extractions(log[i].calls[1]) = 1
          /\ Count(log[i].calls[1], "llm.invoke") = 1
          /\ Len(log[i].after.applications) = RowIndex(i)
          /\ SubSeq(log[i].after.applications, 1, RowIndex(i) - 1)
                = log[i].before.applications
          /\ Len(applications) >= RowIndex(i)
          /\ applications[RowIndex(i)] = log[i].after.applications[RowIndex(i)]
    /\ \A i \in Successes :
          LET K == {j \in Successes : SamePair(i, j)}
          IN  Cardinality({applications[RowIndex(j)].id : j \in K}) = Cardinality(K)

C16_Witness ==
    /\ Len(log) = 3
    /\ Successes = {1, 2, 3}
    /\ \A i \in 1..3 : log[i].files = <<Upload(PdfName, PdfBytes)>>
    /\ Len(applications) = 3
    /\ Cardinality({applications[k].id : k \in 1..3}) = 3
    /\ \A k \in 1..3 : applications[k].score = SqlInt(88)

SameRequest(i, j) ==
    /\ log[i].op = log[j].op
    /\ log[i].files = log[j].files
    /\ log[i].job_description = log[j].job_description
    /\ log[i].candidate_name = log[j].candidate_name
    /\ log[i].job_details = log[j].job_details
    /\ log[i].envs = log[j].envs

SameOutcome(r1, r2) ==
    /\ r1.raised = r2.raised
    /\ r1.raised => r1.exc = r2.exc /\ r1.status_code = r2.status_code
                      /\ r1.detail = r2.detail
    /\ ~r1.raised => r1.value = r2.value

\* C17: the pipeline keeps nothing between requests.  Two requests of a run with
\* the same inputs, to which the services gave the same answers, end in the same
\* response or the same error, whatever was served and stored before each.
C17_Stateless ==
    \A i, j \in 1..Len(log) :
        SameRequest(i, j) => SameOutcome(log[i].response, log[j].response)

C17_Witness ==
    /\ Len(log) = 3
    /\ log[1].op = "score_resume"
    /\ ~log[1].response.raised
    /\ log[2].op = "score_resumes_batch"
    /\ Len(log[2].after.applications) = 2
    /\ SameRequest(1, 3)
    /\ log[3].before # log[1].before
    /\ log[3].response = log[1].response

-----------------------------------------------------------------------------
(* Claims about job postings and job applications *)

ApplyDone == last.op = "apply_to_job"

\* the user the last request's token stood for when the request began
CallerOf(req) == get_user_by_token(req.args.token, req.before)

\* C22: a candidate has at most one job application per job posting: after any
\* sequence of apply_to_job requests, also two by the same candidate for the same
\* job that interleave, the table holds at most one application for each
\* (job_id, candidate_id), and every further attempt is rejected ("You have
\* already applied to this job" when the posting is still active).
C22_OneApplicationPerJob ==
    /\ \A a, b \in job_applications :
          (a.job_id = b.job_id /\ a.candidate_id = b.candidate_id) => a = b
    /\ ApplyDone =>
          \A u \in CallerOf(last) :
             check_existing_application(last.args.job_id, u.id, last.before) =>
                /\ last.response.raised
                /\ (\E j \in last.before.job_postings :
                       j.id = last.args.job_id /\ j.status = "active") =>
                      last.response =
                         HTTPException(400, <<"You have already applied to this job">>)

\* C23: a job application is created only for a job posting that exists and has
\* status 'active' at the moment the application is stored, also when apply_to_job
\* interleaves with update_job_status or delete_job on the same job; applying to a
\* closed or draft job is rejected with 'This job is no longer accepting
\* applications'.
C23_OnlyActiveJobs ==
    ApplyDone =>
        /\ ~last.response.raised =>
              \E j \in job_postings : j.id = last.args.job_id /\ j.status = "active"
        /\ (/\ CallerOf(last) # {}
            /\ \E j \in last.before.job_postings :
                  j.id = last.args.job_id /\ j.status # "active") =>
              last.response =
                 HTTPException(400, <<"This job is no longer accepting applications">>)

\* the operations whose docstring says HR Only
HROnlyOps ==
    {"create_job_posting", "update_job_status", "delete_job",
     "update_job_application_status", "update_candidate_status", "score_resume"}

\* C24: the operations documented as HR Only take effect only when the caller
\* presents a token that resolves to a user with role 'hr', and apply_to_job
\* (Candidate Only) takes effect only for a user with role 'candidate'.
C24_RoleChecks ==
    /\ (last.op \in HROnlyOps /\ ~last.response.raised) =>
          \E u \in CallerOf(last) : u.role = "hr"
    /\ (ApplyDone /\ ~last.response.raised) =>
          \E u \in CallerOf(last) : u.role = "candidate"

\* the tables as they are and as they were when the last request began
Tables(db) == <<db.users, db.tokens, db.job_postings, db.job_applications, db.applications>>

\* C28: delete_job removes the posting and returns success whenever a posting with
\* that id exists, also when job applications refer to it, and returns 'Job not
\* found' (404) with no state change when no such posting exists.
C28_DeleteJob ==
    last.op = "delete_job" =>
        IF \E j \in last.before.job_postings : j.id = last.args.job_id
        THEN /\ last.response = Message(TRUE, <<"Job deleted successfully">>)
             /\ job_postings = {j \in last.before.job_postings : j.id # last.args.job_id}
        ELSE /\ last.response = HTTPException(404, <<"Job not found">>)
             /\ Tables(CurrentDb) = Tables(last.before)

-----------------------------------------------------------------------------
(* Claims about accounts and sessions *)

\* the token was issued and its row is gone: a logout deleted it
Revoked(token, db) ==
    /\ token < db.next_id.tokens
    /\ \A t \in db.tokens : t.token # token

\* C25: logout invalidates the token: once logout(token) has returned success, every
\* later get_current_user, apply_to_job or get_my_applications with that token is
\* answered as invalid or unauthenticated, a second logout of it reports 'Invalid
\* token', and the other tokens of the same user stay valid.
C25_LogoutInvalidates ==
    /\ (last.op = "get_current_user" /\ Revoked(last.args.token, last.before)) =>
          last.response = LoginResponse(FALSE, <<"Invalid or expired token">>, {}, 0)
    /\ (last.op \in {"apply_to_job", "get_my_applications"}
          /\ Revoked(last.args.token, last.before)) =>
          last.response = HTTPException(401, <<"Invalid or expired token">>)
    /\ (last.op = "logout" /\ Revoked(last.args.token, last.before)) =>
          last.response = Message(FALSE, <<"Invalid token">>)
    /\ (last.op = "logout" /\ last.response.value.success) =>
          /\ Revoked(last.args.token, CurrentDb)
          /\ \A t \in last.before.tokens :
                t.token # last.args.token =>
                   /\ t \in tokens
                   /\ get_user_by_token(t.token, CurrentDb) # {}

\* After a logout, a request with the token logged out is refused while another
\* token of the same user is still open.
C25_Witness ==
    /\ last.op = "get_current_user"
    /\ Revoked(last.args.token, last.before)
    /\ ~last.response.value.success
    /\ \E t \in tokens : get_user_by_token(t.token, CurrentDb) # {}
    /\ Cardinality(users) = 1

\* the two addresses differ in the case of their letters at most
SameAddress(e1, e2) ==
    /\ Len(e1) = Len(e2)
    /\ \A i \in 1..Len(e1) :
          e1[i] = e2[i] \/ {e1[i], e2[i]} \in {{"a", "A"}, {"b", "B"}}

\* C26: registration keeps e-mail addresses unique case-insensitively: at most one
\* user exists per lower-cased address, and a register request for an address that
\* is registered already (in any letter case) returns success=False 'Email already
\* registered' and leaves the existing user, its password included, unchanged.
C26_EmailUnique ==
    /\ \A u, v \in users : SameAddress(u.email, v.email) => u = v
    /\ (/\ last.op = "register"
        /\ \E u \in last.before.users : SameAddress(u.email, last.args.email)) =>
          /\ last.response = RegisterResponse(FALSE, <<"Email already registered">>, {})
          /\ users = last.before.users

\* A second registration of a@... as A@... with another password is refused.
C26_Witness ==
    /\ last.op = "register"
    /\ last.args.email = <<"A">>
    /\ last.args.password = <<"q">>
    /\ \E u \in users : u.email = <<"a">> /\ u.password_hash = hash_password(<<"p">>)
    /\ ~last.response.value.success

-----------------------------------------------------------------------------
(* Claims about the statuses *)

\* the allowed statuses of the table that the operation op updates
AllowedStatuses(op) ==
    IF op = "update_candidate_status" THEN {"pending", "shortlisted", "rejected"}
    ELSE IF op = "update_job_status" THEN {"active", "closed", "draft"}
    ELSE {"pending", "reviewed", "shortlisted", "rejected", "hired"}

\* the row that the last status update names was there when the request began
KnownId ==
    IF last.op = "update_candidate_status"
    THEN \E k \in 1..Len(last.before.applications) :
            last.before.applications[k].id = last.args.app_id
    ELSE IF last.op = "update_job_status"
    THEN \E j \in last.before.job_postings : j.id = last.args.job_id
    ELSE \E a \in last.before.job_applications : a.id = last.args.app_id

StatusUpdateDone ==
    last.op \in {"update_candidate_status", "update_job_status",
                 "update_job_application_status"}

\* C27: stored statuses always stay in their allowed sets: scored applications in
\* {pending, shortlisted, rejected}, job postings in {active, closed, draft}, job
\* applications in {pending, reviewed, shortlisted, rejected, hired}; a status
\* update with any other value is rejected with 'Invalid status' (400) and changes
\* nothing, and an update for an unknown id returns 404 and changes nothing.
C27_StatusesAllowed ==
    /\ \A k \in 1..Len(applications) :
          applications[k].status \in {"pending", "shortlisted", "rejected"}
    /\ \A j \in job_postings : j.status \in {"active", "closed", "draft"}
    /\ \A a \in job_applications :
          a.status \in {"pending", "reviewed", "shortlisted", "rejected", "hired"}
    /\ (StatusUpdateDone /\ last.args.status \notin AllowedStatuses(last.op)) =>
          /\ last.response = HTTPException(400, <<"Invalid status">>)
          /\ Tables(CurrentDb) = Tables(last.before)
    /\ (StatusUpdateDone /\ last.args.status \in AllowedStatuses(last.op) /\ ~KnownId) =>
          /\ last.response.raised
          /\ last.response.status_code = 404
          /\ Tables(CurrentDb) = Tables(last.before)

\* With a row in each of the three tables, a status that job applications allow is
\* refused for a scored application.
C27_Witness ==
    /\ last.op = "update_candidate_status"
    /\ last.args.status = "hired"
    /\ KnownId
    /\ job_postings # {}
    /\ job_applications # {}
    /\ last.response = HTTPException(400, <<"Invalid status">>)

-----------------------------------------------------------------------------
(* Claims about the dashboard *)

\* C29: the dashboard statistics are internally consistent: in every result of
\* get_application_stats, total equals pending + shortlisted + rejected, also when
\* the call runs concurrently with score_resume or update_candidate_status requests
\* that insert applications or change their status.
C29_StatsConsistent ==
    last.op = "get_dashboard_stats" =>
        last.response.value.total =
            last.response.value.pending + last.response.value.shortlisted
                + last.response.value.rejected

====
